---- MODULE Spec2Model ----
(***************************************************************************)
(* The polling engine of hyperliquid-trader-watcher                        *)
(* (src/app/monitoring/monitor.py): run_forever, _poll_once and the        *)
(* per-trader coroutine _poll_trader, together with the cursor rows of     *)
(* trader_states, the exchange they poll and the notifications they        *)
(* dispatch.  One action is one stretch of code between two suspension     *)
(* points (await) of the asyncio event loop.                               *)
(***************************************************************************)
EXTENDS Integers, Sequences, FiniteSets, Bags, TLC

\* ------------------------------------------------------------ bounds
NumTraders == 2       \* traders with a user_traders link
MaxClock == 2         \* instants the wall clock can advance after start
MaxEnv == 1           \* events from outside during a run (trades, ledger
                      \* updates, requests of bot users)
MaxFail == 1          \* calls that raise during a run
MaxPaced == 2         \* ticks whose pacing is followed

\* ------------------------------------------------- program constants
SemWidth == 8                     \* asyncio.Semaphore(8)
FallbackMs == 5 * 60 * 1000       \* now_ms - 5 * 60 * 1000

Traders == 1..NumTraders
Coins == {"BTC"}                  \* the coin traded while the engine runs
AllCoins == {"BTC", "ETH"}
CoinOrderMutReversed == <<"ETH", "BTC">>
CoinOrder == <<"BTC", "ETH">>     \* the order of sorted(...) on AllCoins
Sizes == {-1, 0, 1}               \* signed sizes (szi)
Pnls == {-1, 0, 1}                \* closedPnl of a fill
\* A type/kind tag is a sequence of pieces; written one after another
\* they spell the tag ("Usdc" "Deposit" is the tag "UsdcDeposit").
Pieces == {"Usdc", "Deposit", "deposit", "Withdraw", "withdraw", "liquid",
           "ation", "internal", "Transfer"}
LedgerTags == {<<"deposit">>, <<"internal", "Transfer">>}
StartMs == FallbackMs             \* the clock is in ms from an origin
EndMs == StartMs + MaxClock
SemEndMs == StartMs + SemWidth + 1 \* long enough to fill the semaphore

\* ------------------------------------------------------- optionals
\* A nullable column or local is the empty set (None) or a singleton.
Null == {}
Some(x) == {x}
Val(o) == CHOOSE x \in o : TRUE

VARIABLES
  clock,      \* time.time() in ms
  exPos,      \* exchange: trader -> coin -> position record
  exFills,    \* exchange: trader -> the fills, in the order recorded
  exLedger,   \* exchange: trader -> set of non-funding ledger updates
  exAcct,     \* exchange: trader -> account value
  exVer,      \* trader -> number of changes made at the exchange so far
  envLeft,    \* events from outside still allowed in this run
  failLeft,   \* raising calls still allowed in this run
  cursor,     \* trader_states rows: trader -> committed cursor
  lastPoll,   \* trader -> None, or facts about the poll that committed last
  tasks,      \* bag of _poll_trader coroutines started by gather
  rf,         \* where run_forever is: "start", "gather", "sleep"
  sent,       \* bag of notify_trader_subscribers calls made
  raised,     \* TRUE once some _poll_trader has raised
  users,      \* users rows: user -> row
  links,      \* user_traders rows: set of <<user, trader>>
  pace,       \* run_forever's interval, started, elapsed and sleep_for
  stopped,    \* None, or the coroutines and the calls made when the
              \* process stopped
  db,         \* traders and trader_states rows as committed, and the
              \* session that holds SQLite's write lock
  sessions    \* the bot handlers under way: session -> its locals and
              \* its writes not yet committed

vars == <<clock, exPos, exFills, exLedger, exAcct, exVer, envLeft, failLeft, cursor,
          lastPoll, tasks, rf, sent, raised, users, links, pace, stopped, db,
          sessions>>

\* What the engine never writes.
aux == <<users, links, pace, stopped, db, sessions>>
envVars == <<exPos, exFills, exLedger, exAcct, exVer, envLeft, failLeft, aux>>
exVars == <<exPos, exFills, exLedger, exAcct, exVer, envLeft, aux>>

\* ------------------------------------------------------- the cursor
\* TraderState(trader_id=...): every nullable column is NULL.
EmptyCursor ==
  [positions_json |-> Null, last_ledger_ts_ms |-> Null,
   last_fills_ts_ms |-> Null, last_account_value |-> Null]

\* json.dumps(new_positions) and json.loads(state.positions_json): the
\* text keeps the mapping of the dict, wrapped as one JSON document.
JsonDumps(p) == [json |-> p]
JsonLoads(s) == s.json

\* {}: the dict without a key.
NoPositions == [c \in {} |-> 0]

\* A value of a JSON field as the exchange sends it: a number (or a text
\* that float() parses), or a text that is not a number.  A field of a
\* record is None (absent or null: dict.get gives None for both) or one
\* of these values.
Num(n) == <<"num", n>>
NotNumeric == <<"text", 0>>

\* _safe_float(x), lines 23-27: float(x), and 0.0 when float raises (on
\* None and on a text that is not a number).
SafeFloatMutNonZero(x) ==
  IF x # Null /\ Val(x)[1] = "num" THEN Val(x)[2] ELSE 1
SafeFloat(x) ==
  IF x # Null /\ Val(x)[1] = "num" THEN Val(x)[2] ELSE 0

\* The record of a position as assetPositions carries it, with the
\* fields the engine reads: szi, leverage (its "value") and
\* positionValue.  While the engine runs the exchange quotes leverage 1
\* and a notional equal to the signed size.
Position(szi) ==
  [szi |-> Some(Num(szi)), leverage |-> Some(Num(1)),
   positionValue |-> Some(Num(szi))]

\* op = old_positions.get(coin) or {}: the record, or the dict without
\* a key for a coin that is not in the map.
NoRecord == [szi |-> Null, leverage |-> Null, positionValue |-> Null]
RecordOf(positions, coin) ==
  IF coin \in DOMAIN positions THEN positions[coin] ELSE NoRecord

\* _safe_float(op.get("szi")): 0.0 for a coin that is not a key.
SziMutUnsigned(positions, coin) ==
  LET szi == SafeFloat(RecordOf(positions, coin).szi)
  IN IF szi < 0 THEN 0 - szi ELSE szi
Szi(positions, coin) == SafeFloat(RecordOf(positions, coin).szi)

\* _extract_leverage, lines 30-35: int(lev.get("value")), None when the
\* leverage is absent or int raises.
ExtractLeverage(position) ==
  IF position.leverage # Null /\ Val(position.leverage)[1] = "num"
    THEN Some(Val(position.leverage)[2])
    ELSE Null

\* _extract_notional_usd, lines 38-43: abs(float(v)), None when float
\* raises.
ExtractNotionalUsd(position) ==
  IF position.positionValue # Null /\ Val(position.positionValue)[1] = "num"
    THEN LET v == Val(position.positionValue)[2]
         IN Some(IF v < 0 THEN 0 - v ELSE v)
    ELSE Null

\* a or b on two optional numbers (lines 144-145): None and 0 are falsy,
\* so b is the value unless a is a number other than 0.
OrElse(a, b) == IF a # Null /\ Val(a) # 0 THEN a ELSE b

\* is_bootstrap, line 95
IsBootstrap(state) ==
  /\ state.positions_json = Null
  /\ state.last_ledger_ts_ms = Null
  /\ state.last_fills_ts_ms = Null

\* old_positions, lines 101-106: {} unless positions_json is a non-empty
\* text that parses.
OldPositions(state) ==
  IF state.positions_json = Null
    THEN NoPositions
    ELSE JsonLoads(Val(state.positions_json))

\* state.last_..._ts_ms or (now_ms - 5 * 60 * 1000): None and 0 are falsy.
WindowStart(wm, now_ms) ==
  IF wm = Null \/ Val(wm) = 0 THEN now_ms - FallbackMs ELSE Val(wm)


\* ---------------------------------------------------- the classifier
\* str.lower() of a piece of a tag.
LowerMutIdentity(piece) == piece
Lower(piece) ==
  CASE piece = "Usdc" -> "usdc"
    [] piece = "Deposit" -> "deposit"
    [] piece = "Withdraw" -> "withdraw"
    [] piece = "Transfer" -> "transfer"
    [] OTHER -> piece

\* item.get("delta", {}).get("type") of the script trader_watcher.py and
\* delta.get("type", ...) of traders_history: the type nested under the
\* record's "delta", None when there is none.
DeltaType(item) ==
  IF item.delta = Null THEN Null ELSE Val(item.delta).type

\* t = str(u.get("type") or u.get("kind") or "").lower()  (line 187):
\* None and "" are falsy.
TagOfMutNested(u) ==
  LET raw == IF u.type # Null /\ Val(u.type) # <<>> THEN Val(u.type)
             ELSE IF u.kind # Null /\ Val(u.kind) # <<>> THEN Val(u.kind)
             ELSE IF DeltaType(u) # Null THEN Val(DeltaType(u))
             ELSE <<>>
  IN [i \in 1..Len(raw) |-> Lower(raw[i])]
TagOf(u) ==
  LET raw == IF u.type # Null /\ Val(u.type) # <<>> THEN Val(u.type)
             ELSE IF u.kind # Null /\ Val(u.kind) # <<>> THEN Val(u.kind)
             ELSE <<>>
  IN [i \in 1..Len(raw) |-> Lower(raw[i])]

\* "x in t" for the needles of lines 190-194, each one piece long.
Contains(t, needle) == \E i \in 1..Len(t) : t[i] = needle

\* _classify_ledger_event, lines 186-198.
ClassifyLedgerEvent(u) ==
  LET t == TagOf(u)
  IN IF Contains(t, "deposit") THEN "deposit"
     ELSE IF Contains(t, "withdraw") THEN "withdraw"
     ELSE IF Contains(t, "liquid") THEN "liquidation"
     ELSE "ignore"

\* fills_by_coin, lines 111-126: the sum of closedPnl per coin over the
\* fills that have a coin and a non-zero closedPnl (_safe_float gives
\* 0.0 for an absent one).
RECURSIVE FillsByCoin(_)
FillsByCoin(fills) ==
  IF fills = <<>> THEN NoPositions
  ELSE LET f == fills[Len(fills)]
           acc == FillsByCoin(SubSeq(fills, 1, Len(fills) - 1))
           pnl == SafeFloat(f.closedPnl)
       IN IF f.coin = Null \/ pnl = 0
            THEN acc
            ELSE LET coin == Val(f.coin)
                     sum == IF coin \in DOMAIN acc THEN acc[coin] + pnl ELSE pnl
                 IN [c \in DOMAIN acc \cup {coin} |->
                       IF c = coin THEN sum ELSE acc[c]]

\* fills_by_coin.get(coin)
RealizedPnlMutZero(fills_by_coin, coin) ==
  IF coin \in DOMAIN fills_by_coin THEN Some(fills_by_coin[coin]) ELSE Some(0)
RealizedPnl(fills_by_coin, coin) ==
  IF coin \in DOMAIN fills_by_coin THEN Some(fills_by_coin[coin]) ELSE Null

\* lines 128-148: one PositionChange per coin of sorted(all_coins) whose
\* signed size differs between the cursor and the snapshot.
RECURSIVE PositionEventsFrom(_, _, _, _)
PositionEventsFrom(i, old, new, fills_by_coin) ==
  IF i > Len(CoinOrder) THEN <<>>
  ELSE LET coin == CoinOrder[i]
           rest == PositionEventsFrom(i + 1, old, new, fills_by_coin)
       IN IF coin \notin DOMAIN old \cup DOMAIN new \/ Szi(old, coin) = Szi(new, coin)
            THEN rest
            ELSE <<[coin |-> coin,
                    old_szi |-> Szi(old, coin), new_szi |-> Szi(new, coin),
                    leverage |-> OrElse(ExtractLeverage(RecordOf(new, coin)),
                                        ExtractLeverage(RecordOf(old, coin))),
                    notional_usd |-> OrElse(ExtractNotionalUsd(RecordOf(new, coin)),
                                            ExtractNotionalUsd(RecordOf(old, coin))),
                    realized_pnl_usd |-> RealizedPnl(fills_by_coin, coin)]>> \o rest

PositionEvents(old, new, fills_by_coin) == PositionEventsFrom(1, old, new, fills_by_coin)

\* The exchange answers user_fills_by_time(addr, start, end) with the
\* fills whose time lies in the range, in the order it recorded them.
FetchFillsByTime(t, start_ms, end_ms) ==
  SelectSeq(exFills[t], LAMBDA f : start_ms =< f.time /\ f.time =< end_ms)

\* The exchange answers user_non_funding_ledger_updates(addr, start, end)
\* with the updates whose time lies in the closed range, oldest first
\* (hash numbers the updates in the order the exchange recorded them).
InWindow(u, start_ms, end_ms) == start_ms =< u.time /\ u.time =< end_ms

RECURSIVE OldestFirst(_)
OldestFirst(S) ==
  IF S = {} THEN <<>>
  ELSE LET u == CHOOSE x \in S : \A y \in S : x.hash =< y.hash
       IN <<u>> \o OldestFirst(S \ {u})

FetchNonFundingLedgerUpdates(t, start_ms, end_ms) ==
  OldestFirst({u \in exLedger[t] : InWindow(u, start_ms, end_ms)})

\* lines 159-162: a LedgerEvent for every update that is not ignored.
RECURSIVE LedgerEvents(_)
LedgerEvents(updates) ==
  IF updates = <<>> THEN <<>>
  ELSE LET kind == ClassifyLedgerEvent(Head(updates))
           rest == LedgerEvents(Tail(updates))
       IN IF kind \in {"deposit", "withdraw", "liquidation"}
            THEN <<[kind |-> kind, raw |-> Head(updates)]>> \o rest
            ELSE rest

\* ----------------------------------------------- _poll_trader tasks
Finished == {"done", "raised", "cancelled"}
Waiting == {"sem"}

\* _task(t.id, t.address) as gather schedules it: nothing run yet.
NewTask(t) ==
  [trader |-> t, cur |-> TRUE, pc |-> "sem", state |-> Null,
   is_bootstrap |-> FALSE, now_ms |-> Null, snapshot |-> Null,
   failed |-> {}, position_events |-> <<>>, ledger_events |-> <<>>,
   queue |-> <<>>, committed |-> FALSE, ver0 |-> 0]

\* A coroutine that has returned or raised keeps no locals.
EndTask(task, how) ==
  [NewTask(task.trader) EXCEPT !.cur = task.cur, !.pc = how,
     !.is_bootstrap = task.is_bootstrap, !.failed = task.failed,
     !.committed = task.committed]

TaskSet == BagToSet(tasks)

RECURSIVE Copies(_)
Copies(S) ==
  IF S = {} THEN 0
  ELSE LET x == CHOOSE y \in S : TRUE
       IN CopiesIn(x, tasks) + Copies(S \ {x})

\* The number of coroutines inside "async with self._sem".
InFlight == Copies({x \in TaskSet : x.pc \notin Waiting \cup Finished})

\* Semaphore.acquire returns at once while a permit is left.
SemFreeMutUnbounded == TRUE
SemFree == InFlight < SemWidth

Replace(old, new) == (tasks (-) SetToBag({old})) (+) SetToBag({new})

\* async with self._sem: (line 84)
Acquire(task) ==
  /\ task.pc = "sem"
  /\ SemFree
  /\ tasks' = Replace(task, [task EXCEPT !.pc = "get_state"])
  /\ UNCHANGED <<clock, envVars, cursor, lastPoll, rf, sent, raised>>

\* state = await repo.get_state(trader_id); is_bootstrap (lines 90-95)
GetState(task) ==
  /\ task.pc = "get_state"
  /\ LET state == cursor[task.trader]
     IN tasks' = Replace(task,
          [task EXCEPT !.pc = "fetch_user_state", !.state = Some(state),
             !.is_bootstrap = IsBootstrap(state),
             !.ver0 = exVer[task.trader]])
  /\ UNCHANGED <<clock, envVars, cursor, lastPoll, rf, sent, raised>>

\* snapshot = await self._hl.fetch_user_state(address); now_ms (97-98)
FetchUserState(task) ==
  /\ task.pc = "fetch_user_state"
  /\ tasks' = Replace(task,
       [task EXCEPT !.pc = "fetch_fills",
          !.snapshot = Some([positions |-> exPos[task.trader],
                             account_value |-> exAcct[task.trader]]),
          !.now_ms = Some(clock)])
  /\ UNCHANGED <<clock, envVars, cursor, lastPoll, rf, sent, raised>>

\* fetch_user_state raises: the exception leaves _poll_trader, the
\* session is closed without a commit and the semaphore is released.
FetchUserStateRaises(task) ==
  /\ task.pc = "fetch_user_state"
  /\ failLeft > 0
  /\ failLeft' = failLeft - 1
  /\ tasks' = Replace(task,
       EndTask([task EXCEPT !.failed = @ \cup {"fetch_user_state"}], "raised"))
  /\ raised' = TRUE
  /\ UNCHANGED <<clock, exVars, cursor, lastPoll, rf, sent>>


\* fills = await self._hl.fetch_fills_by_time(...), then the positions
\* diff (lines 110-148).  An exception of the call is caught (116-117):
\* fills stays [] and the poll goes on.
AfterFills(task, ok) ==
  LET now_ms == Val(task.now_ms)
      fills_start == WindowStart(Val(task.state).last_fills_ts_ms, now_ms)
      fills == IF ok THEN FetchFillsByTime(task.trader, fills_start, now_ms)
               ELSE <<>>
  IN [task EXCEPT !.pc = "fetch_ledger",
        !.failed = IF ok THEN @ ELSE @ \cup {"fetch_fills_by_time"},
        !.position_events =
           PositionEvents(OldPositions(Val(task.state)),
                          Val(task.snapshot).positions, FillsByCoin(fills))]

FetchFills(task) ==
  /\ task.pc = "fetch_fills"
  /\ \E ok \in BOOLEAN :
       /\ ~ok => failLeft > 0
       /\ failLeft' = IF ok THEN failLeft ELSE failLeft - 1
       /\ tasks' = Replace(task, AfterFills(task, ok))
  /\ UNCHANGED <<clock, exVars, cursor, lastPoll, rf, sent, raised>>

\* category=ev.kind (line 182)
LedgerCategoryMutFixed(ev) == "ledger"
LedgerCategory(ev) == ev.kind

\* The calls of the two alert loops (lines 175-183), in order: the
\* event and the category it is passed with.
PositionCalls(position_events) ==
  [i \in 1..Len(position_events) |->
     [category |-> "positions", ev |-> position_events[i]]]

LedgerCalls(ledger_events) ==
  [i \in 1..Len(ledger_events) |->
     [category |-> LedgerCategory(ledger_events[i]), ev |-> ledger_events[i]]]

\* What is dispatched after the commit (lines 172-183): nothing for a
\* bootstrap poll, else the position events and then the ledger events.
OutboxMutNoSuppression(is_bootstrap, position_events, ledger_events) ==
  PositionCalls(position_events) \o LedgerCalls(ledger_events)
Outbox(is_bootstrap, position_events, ledger_events) ==
  IF is_bootstrap THEN <<>>
  ELSE PositionCalls(position_events) \o LedgerCalls(ledger_events)

\* The statement that follows the ledger loop is the commit (164-169);
\* the alerts come after the session block (171).
PcAfterLedgerMutNotifyFirst == "notify"
PcAfterLedger == "commit"

\* updates = await self._hl.fetch_non_funding_ledger_updates(...), then
\* the ledger loop (lines 150-162).  An exception of the call is caught
\* (155-157): updates = [] and the poll goes on.
AfterLedger(task, ok) ==
  LET now_ms == Val(task.now_ms)
      ledger_start == WindowStart(Val(task.state).last_ledger_ts_ms, now_ms)
      updates == IF ok
                   THEN FetchNonFundingLedgerUpdates(task.trader, ledger_start, now_ms)
                   ELSE <<>>
      ledger_events == LedgerEvents(updates)
  IN [task EXCEPT !.pc = PcAfterLedger,
        !.failed = IF ok THEN @ ELSE @ \cup {"fetch_non_funding_ledger_updates"},
        !.ledger_events = ledger_events,
        !.queue = Outbox(task.is_bootstrap, task.position_events, ledger_events)]

FetchLedger(task) ==
  /\ task.pc = "fetch_ledger"
  /\ \E ok \in BOOLEAN :
       /\ ~ok => failLeft > 0
       /\ failLeft' = IF ok THEN failLeft ELSE failLeft - 1
       /\ tasks' = Replace(task, AfterLedger(task, ok))
  /\ UNCHANGED <<clock, exVars, cursor, lastPoll, rf, sent, raised>>

\* lines 165-168: the four attributes set on the loaded row.
NewState(task) ==
  [positions_json |-> Some(JsonDumps(Val(task.snapshot).positions)),
   last_ledger_ts_ms |-> task.now_ms,
   last_fills_ts_ms |-> task.now_ms,
   last_account_value |-> Val(task.snapshot).account_value]

\* session.commit(): the unit of work writes, in one UPDATE, the
\* attributes whose value differs from the one it loaded.
Flush(row, loaded, new) ==
  [f \in DOMAIN new |-> IF new[f] = loaded[f] THEN row[f] ELSE new[f]]

AfterCommit(task) ==
  IF task.queue = <<>>
    THEN EndTask([task EXCEPT !.committed = TRUE], "done")
    ELSE [task EXCEPT !.pc = "notify", !.committed = TRUE]

Commit(task) ==
  /\ task.pc = "commit"
  /\ cursor' = [cursor EXCEPT ![task.trader] =
                  Flush(@, Val(task.state), NewState(task))]
  /\ lastPoll' = [lastPoll EXCEPT ![task.trader] =
                  Some([ver |-> task.ver0, boot |-> task.is_bootstrap,
                        events |-> Len(task.position_events) + Len(task.ledger_events),
                        failed |-> task.failed,
                        start_ms |-> WindowStart(Val(task.state).last_ledger_ts_ms,
                                                 Val(task.now_ms)),
                        now_ms |-> Val(task.now_ms)])]
  /\ tasks' = Replace(task, AfterCommit(task))
  /\ UNCHANGED <<clock, envVars, rf, sent, raised>>

\* The rows after a commit that raised: the UPDATE is rolled back when
\* the session block is left (line 90), no attribute of it is stored.
RollbackMutPartial(task) ==
  [cursor EXCEPT ![task.trader].positions_json = NewState(task).positions_json]
Rollback(task) == cursor

\* session.commit() raises: nothing is written, the exception leaves
\* _poll_trader before any alert.  (The events the poll had computed
\* are kept in the record of the finished task.)
CommitRaises(task) ==
  /\ task.pc = "commit"
  /\ failLeft > 0
  /\ failLeft' = failLeft - 1
  /\ cursor' = Rollback(task)
  /\ tasks' = Replace(task,
       [EndTask(task, "raised") EXCEPT
          !.position_events = task.position_events,
          !.ledger_events = task.ledger_events])
  /\ raised' = TRUE
  /\ UNCHANGED <<clock, exVars, lastPoll, rf, sent>>

\* --------------------------------------------------- the bot's tables
\* The address of the Trader row with this id, in lower case as
\* get_or_create_trader stores it.
AddressOf(t) == IF t = 1 THEN "0xaa" ELSE "0xbb"

\* The traders and trader_states rows while the engine runs: a row for
\* each trader, and no bot handler writing.
EngineDb ==
  [traders |-> {[id |-> t, address |-> AddressOf(t)] : t \in Traders},
   trader_states |-> Traders,
   lock |-> Null]

NoSessions == <<>>

\* ------------------------------------------------------ the notifier
Users == 1..3
Statuses == {"pending", "approved", "blocked"}       \* UserStatus
DeliveryModes == {"dm", "channel"}                   \* DeliveryMode

\* A users row as User(telegram_id=...) inserts it: status pending,
\* delivery by direct message, every alert on.  The telegram_id of user
\* u is u.
NewUser(u) ==
  [telegram_id |-> u, is_admin |-> FALSE, status |-> "pending", delivery_mode |-> "dm",
   delivery_chat_id |-> Null,
   alert_positions |-> TRUE, alert_liquidations |-> TRUE,
   alert_deposits |-> TRUE, alert_withdrawals |-> TRUE]

\* The rows while the engine runs: two approved users and one user
\* still waiting for approval, each linked to every trader.
UserRow(u) ==
  [NewUser(u) EXCEPT !.status = IF u = 3 THEN "pending" ELSE "approved"]

InitAux ==
  /\ users = [u \in Users |-> UserRow(u)]
  /\ links = Users \X Traders
  /\ pace = Null
  /\ stopped = Null
  /\ db = EngineDb
  /\ sessions = NoSessions

\* ORDER BY users.telegram_id ASC
RECURSIVE ByTelegramId(_)
ByTelegramId(S) ==
  IF S = {} THEN <<>>
  ELSE LET u == CHOOSE x \in S :
                  \A y \in S : users[x].telegram_id =< users[y].telegram_id
       IN <<u>> \o ByTelegramId(S \ {u})

\* repo.list_subscribers_for_trader(trader_id): the users with a link
\* to the trader, by telegram_id.
ListSubscribersForTrader(t) == ByTelegramId({u \in Users : <<u, t>> \in links})

\* TelegramNotifier._is_allowed
IsAllowedMutAlways(user, category) == TRUE
IsAllowed(user, category) ==
  CASE category = "positions" -> user.alert_positions
    [] category = "liquidation" -> user.alert_liquidations
    [] category = "deposit" -> user.alert_deposits
    [] category = "withdraw" -> user.alert_withdrawals
    [] OTHER -> TRUE

\* chat_id, lines 30-34: delivery_chat_id for a channel user that has a
\* non-empty one, else telegram_id.
ChatId(user) ==
  IF user.delivery_mode = "channel" /\ user.delivery_chat_id # Null
       /\ Val(user.delivery_chat_id) # ""
    THEN [telegram_id |-> Null, delivery_chat_id |-> user.delivery_chat_id]
    ELSE [telegram_id |-> Some(user.telegram_id), delivery_chat_id |-> Null]

\* The users the loop goes on with after send_message has raised for
\* one of them: the exception is caught and logged (lines 36-39).
RestAfterSendErrorMutStop(subscribers) == <<>>
RestAfterSendError(subscribers) == Tail(subscribers)

\* The loop of lines 24-39 over the subscribers, where send_message
\* raises for the users of fails: who had a send attempted, who got the
\* message.
RECURSIVE SendAll(_, _, _)
SendAll(subscribers, category, fails) ==
  IF subscribers = <<>> THEN [attempted |-> {}, delivered |-> {}]
  ELSE LET u == Head(subscribers)
       IN IF users[u].status # "approved" \/ ~IsAllowed(users[u], category)
            THEN SendAll(Tail(subscribers), category, fails)
            ELSE LET rest == IF u \in fails
                               THEN SendAll(RestAfterSendError(subscribers), category, fails)
                               ELSE SendAll(Tail(subscribers), category, fails)
                 IN [attempted |-> {u} \cup rest.attempted,
                     delivered |-> (IF u \in fails THEN {} ELSE {u})
                                     \cup rest.delivered]

\* The users send_message is called for when no call raises.
Recipients(t, category) == SendAll(ListSubscribersForTrader(t), category, {}).attempted

\* ----------------------------------------------------- the formatter
\* "Long" if szi > 0 else "Short" (formatter.py:55-56)
Side(szi) == IF szi > 0 THEN "Long" ELSE "Short"

\* flipped, formatter.py:60
FlippedMutNever(old_szi, new_szi) == FALSE
Flipped(old_szi, new_szi) ==
  old_szi # 0 /\ new_szi # 0 /\ (old_szi > 0) # (new_szi > 0)

\* AlertFormatter.format_position_change: which of the four messages
\* is returned and the sides it names.
FormatPositionChange(ev) ==
  LET opened == ev.old_szi = 0 /\ ev.new_szi # 0
      closed == ev.old_szi # 0 /\ ev.new_szi = 0
  IN IF opened
       THEN [message |-> "opened", old_side |-> Null, side |-> Some(Side(ev.new_szi))]
     ELSE IF closed
       THEN [message |-> "closed", old_side |-> Some(Side(ev.old_szi)), side |-> Null]
     ELSE IF Flipped(ev.old_szi, ev.new_szi)
       THEN [message |-> "flipped", old_side |-> Some(Side(ev.old_szi)),
             side |-> Some(Side(ev.new_szi))]
     ELSE [message |-> "adjusted", old_side |-> Null, side |-> Null]

\* AlertFormatter.format_ledger_event: the message of the kind.
FormatLedgerEvent(ev) ==
  [message |-> IF ev.kind \in {"deposit", "withdraw", "liquidation"}
                 THEN ev.kind ELSE "event",
   old_side |-> Null, side |-> Null]

\* The text passed by the call (lines 176-177, 181-182).
TextOf(call) ==
  IF call.category = "positions"
    THEN FormatPositionChange(call.ev)
    ELSE FormatLedgerEvent(call.ev)

\* One await self._notifier.notify_trader_subscribers(...) of the two
\* loops of lines 175-183; the coroutine returns after the last one.
Notification(task, fails) ==
  LET r == SendAll(ListSubscribersForTrader(task.trader),
                   Head(task.queue).category, fails)
  IN [trader |-> task.trader, category |-> Head(task.queue).category,
      ev |-> Head(task.queue).ev, text |-> TextOf(Head(task.queue)),
      boot |-> task.is_bootstrap, committed |-> task.committed,
      attempted |-> r.attempted, delivered |-> r.delivered,
      chat_id |-> [u \in r.attempted |-> ChatId(users[u])]]

Dispatch(task) ==
  /\ task.pc = "notify"
  /\ task.queue # <<>>
  /\ \E fails \in SUBSET Recipients(task.trader, Head(task.queue).category) :
       /\ Cardinality(fails) =< failLeft
       /\ failLeft' = failLeft - Cardinality(fails)
       /\ sent' = sent (+) SetToBag({Notification(task, fails)})
  /\ tasks' = Replace(task,
       IF Tail(task.queue) = <<>>
         THEN EndTask(task, "done")
         ELSE [task EXCEPT !.queue = Tail(@)])
  /\ UNCHANGED <<clock, exVars, cursor, lastPoll, rf, raised>>


\* notify_trader_subscribers raises before its loop (the session or the
\* listing of line 22 fails): nothing catches it in the alert loops of
\* _poll_trader, the exception leaves the coroutine and the events not
\* yet dispatched are dropped.
NotifyRaises(task) ==
  /\ task.pc = "notify"
  /\ task.queue # <<>>
  /\ failLeft > 0
  /\ failLeft' = failLeft - 1
  /\ tasks' = Replace(task, EndTask(task, "raised"))
  /\ raised' = TRUE
  /\ UNCHANGED <<clock, exVars, cursor, lastPoll, rf, sent>>

\* ------------------------------------------ run_forever, _poll_once
\* SELECT ... FROM traders JOIN user_traders: one row per link.
TraderOf(link) == link[2]
JoinedTraders == BagOfAll(TraderOf, SetToBag(links))

\* repo.list_distinct_traders_to_monitor(): the rows of the join with
\* DISTINCT, as the bag of the traders a _task is made for.
ListDistinctTradersToMonitorMutAll == JoinedTraders
ListDistinctTradersToMonitor == SetToBag(BagToSet(JoinedTraders))

\* The coroutines of earlier ticks that have not finished stay in the
\* event loop; those that have finished are gone.
Stale(task) == [task EXCEPT !.cur = FALSE]

Unfinished == {x \in TaskSet : x.pc \notin Finished}

Leftover ==
  LET old == [x \in Unfinished |-> tasks[x]]
  IN BagOfAll(Stale, old)

\* _poll_once up to the await of gather (lines 76-87): the listing, and
\* one _task per trader handed to gather.  With no trader it returns.
StartTick ==
  /\ rf = "start"
  /\ LET traders == ListDistinctTradersToMonitor
     IN /\ tasks' = Leftover (+) BagOfAll(NewTask, traders)
        /\ rf' = IF traders = EmptyBag THEN "sleep" ELSE "gather"
  /\ UNCHANGED <<clock, envVars, cursor, lastPoll, sent, raised>>

\* Where run_forever goes when _poll_once has raised an Exception: the
\* except clause logs it (68-69) and the loop body goes on to the sleep.
RfAfterRaiseMutReturns == "returned"
RfAfterRaise == "sleep"

\* The listing raises: _poll_once raises and run_forever logs it (68-69).
ListingRaises ==
  /\ rf = "start"
  /\ failLeft > 0
  /\ failLeft' = failLeft - 1
  /\ rf' = RfAfterRaise
  /\ UNCHANGED <<clock, exVars, cursor, lastPoll, tasks, sent, raised>>

Current == {x \in TaskSet : x.cur}

\* await asyncio.gather(*tasks) returns once every task has returned.
GatherReturns ==
  /\ rf = "gather"
  /\ \A x \in Current : x.pc = "done"
  /\ rf' = "sleep"
  /\ UNCHANGED <<clock, envVars, cursor, lastPoll, tasks, sent, raised>>

\* gather without return_exceptions: the first exception of a task is
\* raised in _poll_once at once; the other tasks are neither awaited nor
\* cancelled.  run_forever catches it (68-69) and goes to sleep.
GatherRaises ==
  /\ rf = "gather"
  /\ \E x \in Current : x.pc = "raised"
  /\ rf' = RfAfterRaise
  /\ UNCHANGED <<clock, envVars, cursor, lastPoll, tasks, sent, raised>>

\* await asyncio.sleep(max(0.1, ...)) ends (71-73): time has passed.
Wake(end_ms) ==
  /\ rf = "sleep"
  /\ clock < end_ms
  /\ clock' = clock + 1
  /\ rf' = "start"
  /\ UNCHANGED <<envVars, cursor, lastPoll, tasks, sent, raised>>

\* ------------------------------------------------- the environment
\* Time passes while coroutines wait.
Tick ==
  /\ clock < EndMs
  /\ clock' = clock + 1
  /\ UNCHANGED <<envVars, cursor, lastPoll, tasks, rf, sent, raised>>

\* assetPositions after an order for coin has filled: the coin with its
\* new size, or without the coin once the position is closed.
Filled(positions, coin, szi) ==
  LET keys == IF szi = 0 THEN DOMAIN positions \ {coin}
              ELSE DOMAIN positions \cup {coin}
  IN [c \in keys |-> IF c = coin THEN Position(szi) ELSE positions[c]]

\* The trader changes a position at the exchange; the fill is recorded
\* with its closedPnl.
Trade(t, coin, szi) ==
  /\ envLeft > 0
  /\ Szi(exPos[t], coin) # szi
  /\ exPos' = [exPos EXCEPT ![t] = Filled(@, coin, szi)]
  /\ exFills' = [exFills EXCEPT ![t] =
        Append(@, [coin |-> Some(coin), closedPnl |-> Some(Num(szi)), time |-> clock])]
  /\ exVer' = [exVer EXCEPT ![t] = @ + 1]
  /\ envLeft' = envLeft - 1
  /\ UNCHANGED <<clock, exLedger, exAcct, failLeft, cursor, lastPoll, tasks, rf, sent,
                 raised, aux>>

AllUpdates == UNION {exLedger[t] : t \in Traders}

\* The exchange records a ledger update of the trader, stamped now.
Ledger(t, tag) ==
  /\ envLeft > 0
  /\ exLedger' = [exLedger EXCEPT ![t] =
        @ \cup {[hash |-> Cardinality(AllUpdates) + 1, time |-> clock,
                  type |-> Some(tag), kind |-> Null]}]
  /\ exAcct' = [exAcct EXCEPT ![t] =
        IF tag = <<"deposit">> THEN Some(Val(@) + 1) ELSE @]
  /\ exVer' = [exVer EXCEPT ![t] = @ + 1]
  /\ envLeft' = envLeft - 1
  /\ UNCHANGED <<clock, exPos, exFills, failLeft, cursor, lastPoll, tasks, rf, sent,
                 raised, aux>>

\* ---------------------------------------------------- the bot handlers
\* _send_traders_list / _edit_traders_list (user.py 859-905): a user opens
\* the list of traders; _refresh_balances_if_needed fetches the balance
\* of a trader whose row has none (or one older than 30 s, which a row
\* written within the run never is), sets it on the row and the handler
\* commits.
RefreshBalances(t) ==
  /\ envLeft > 0
  /\ cursor[t].last_account_value = Null
  /\ exAcct[t] # Null
  /\ cursor' = [cursor EXCEPT ![t].last_account_value = exAcct[t]]
  /\ envLeft' = envLeft - 1
  /\ UNCHANGED <<clock, exPos, exFills, exLedger, exAcct, exVer, failLeft,
                 lastPoll, tasks, rf, sent, raised, aux>>

\* ------------------------------------------------ the specification
\* Every linked trader has its trader_states row, all NULL; at the
\* exchange it holds a position and has a deposit made just before.
Init ==
  /\ clock = StartMs
  /\ exPos = [t \in Traders |-> [c \in Coins |-> Position(1)]]
  /\ exFills = [t \in Traders |-> <<>>]
  /\ exLedger = [t \in Traders |->
        {[hash |-> t, time |-> StartMs - 1, type |-> Some(<<"deposit">>),
          kind |-> Null]}]
  /\ exAcct = [t \in Traders |-> Some(1)]
  /\ exVer = [t \in Traders |-> 0]
  /\ envLeft = MaxEnv
  /\ failLeft = MaxFail
  /\ cursor = [t \in Traders |-> EmptyCursor]
  /\ lastPoll = [t \in Traders |-> Null]
  /\ tasks = EmptyBag
  /\ rf = "start"
  /\ sent = EmptyBag
  /\ raised = FALSE
  /\ InitAux

Environment ==
  \/ Tick
  \/ \E t \in Traders, coin \in Coins, szi \in Sizes : Trade(t, coin, szi)
  \/ \E t \in Traders, tag \in LedgerTags : Ledger(t, tag)

Next ==
  \/ StartTick
  \/ ListingRaises
  \/ GatherReturns
  \/ GatherRaises
  \/ Wake(EndMs)
  \/ \E task \in TaskSet : Acquire(task)
  \/ \E task \in TaskSet : GetState(task)
  \/ \E task \in TaskSet : FetchUserState(task)
  \/ \E task \in TaskSet : FetchUserStateRaises(task)
  \/ \E task \in TaskSet : FetchFills(task)
  \/ \E task \in TaskSet : FetchLedger(task)
  \/ \E task \in TaskSet : Commit(task)
  \/ \E task \in TaskSet : CommitRaises(task)
  \/ \E task \in TaskSet : Dispatch(task)
  \/ \E task \in TaskSet : NotifyRaises(task)
  \/ \E t \in Traders : RefreshBalances(t)
  \/ Environment

Spec == Init /\ [][Next]_vars


\* A run that fills the semaphore: the exchange answers no call (each
\* fetch_user_state hangs or raises), so a tick ends as soon as one of
\* its tasks raises while the others keep their permit, tick after tick.
InitSem ==
  /\ clock = StartMs
  /\ exPos = [t \in Traders |-> [c \in Coins |-> Position(1)]]
  /\ exFills = [t \in Traders |-> <<>>]
  /\ exLedger = [t \in Traders |-> {}]
  /\ exAcct = [t \in Traders |-> Some(1)]
  /\ exVer = [t \in Traders |-> 0]
  /\ envLeft = 0
  /\ failLeft = SemWidth + 1
  /\ cursor = [t \in Traders |-> EmptyCursor]
  /\ lastPoll = [t \in Traders |-> Null]
  /\ tasks = EmptyBag
  /\ rf = "start"
  /\ sent = EmptyBag
  /\ raised = FALSE
  /\ InitAux

NextSem ==
  \/ StartTick
  \/ GatherRaises
  \/ Wake(SemEndMs)
  \/ \E task \in TaskSet : Acquire(task)
  \/ \E task \in TaskSet : GetState(task)
  \/ \E task \in TaskSet : FetchUserStateRaises(task)

SpecSem == InitSem /\ [][NextSem]_vars

\* ------------------------------------------------ stop and shutdown
\* The process stops (kill, power loss) while a poll is about to commit
\* or has committed and not yet made all its calls, and is started
\* again: the coroutines are gone with their locals, the rows of the
\* database and what the exchange holds stay, and main starts
\* run_forever afresh.
Crash ==
  /\ stopped = Null
  /\ db = EngineDb
  /\ sessions = NoSessions
  /\ \E x \in TaskSet : x.pc \in {"commit", "notify"}
  /\ stopped' = Some([tasks |-> tasks, sent |-> sent])
  /\ tasks' = EmptyBag
  /\ rf' = "start"
  /\ UNCHANGED <<clock, exPos, exFills, exLedger, exAcct, exVer, envLeft, failLeft,
                 cursor, lastPoll, sent, raised, users, links, pace, db, sessions>>

\* The engine with every call answering, stopped once.
InitCrash ==
  /\ clock = StartMs
  /\ exPos = [t \in Traders |-> [c \in Coins |-> Position(1)]]
  /\ exFills = [t \in Traders |-> <<>>]
  /\ exLedger = [t \in Traders |-> {}]
  /\ exAcct = [t \in Traders |-> Some(1)]
  /\ exVer = [t \in Traders |-> 0]
  /\ envLeft = MaxEnv
  /\ failLeft = 0
  /\ cursor = [t \in Traders |-> EmptyCursor]
  /\ lastPoll = [t \in Traders |-> Null]
  /\ tasks = EmptyBag
  /\ rf = "start"
  /\ sent = EmptyBag
  /\ raised = FALSE
  /\ InitAux

NextCrash ==
  \/ StartTick
  \/ GatherReturns
  \/ Wake(EndMs)
  \/ \E task \in TaskSet : Acquire(task)
  \/ \E task \in TaskSet : GetState(task)
  \/ \E task \in TaskSet : FetchUserState(task)
  \/ \E task \in TaskSet : FetchFills(task)
  \/ \E task \in TaskSet : FetchLedger(task)
  \/ \E task \in TaskSet : Commit(task)
  \/ \E task \in TaskSet : Dispatch(task)
  \/ \E t \in Traders, coin \in Coins, szi \in Sizes : Trade(t, coin, szi)
  \/ \E t \in Traders, tag \in LedgerTags : Ledger(t, tag)
  \/ Crash

SpecCrash == InitCrash /\ [][NextCrash]_vars

\* A task of the gather that run_forever awaits gets CancelledError at
\* its suspension point; no except clause of _poll_trader catches it
\* (they name Exception), the session closes without a commit.
Cancelled(task) ==
  IF task.cur /\ task.pc \notin Finished THEN EndTask(task, "cancelled") ELSE task

\* main cancels the monitor task on shutdown (main.py:120-122):
\* CancelledError is raised in run_forever where it waits.  While it
\* awaits gather, the cancellation goes to the tasks of that gather and
\* run_forever ends when they have ended; the coroutines an earlier
\* gather has left behind are not its children.
Cancel ==
  /\ rf \in {"start", "gather", "sleep"}
  /\ rf' = "cancelled"
  /\ tasks' = BagOfAll(Cancelled, tasks)
  /\ UNCHANGED <<clock, envVars, cursor, lastPoll, sent, raised>>

SpecCancel == Init /\ [][Next \/ Cancel]_vars

\* ------------------------------------------- ticks while links change
\* repo.add_trader_to_user: INSERT OR IGNORE of the link.
AddTraderToUser(u, t) ==
  /\ links' = links \cup {<<u, t>>}
  /\ UNCHANGED <<clock, exPos, exFills, exLedger, exAcct, exVer, envLeft, failLeft,
                 cursor, lastPoll, tasks, rf, sent, raised, users, pace, stopped,
                 db, sessions>>

\* The TraderState row of a trader after one of its links is deleted: the
\* DELETE names user_traders only, and the cascade of Trader.state runs
\* on the deletion of a Trader, which nothing does.
StateAfterRemoveMutCascade(t) == EmptyCursor
StateAfterRemove(t) == cursor[t]

\* repo.remove_trader_from_user: DELETE of the link.
RemoveTraderFromUser(u, t) ==
  /\ links' = links \ {<<u, t>>}
  /\ cursor' = [cursor EXCEPT ![t] = StateAfterRemove(t)]
  /\ UNCHANGED <<clock, exPos, exFills, exLedger, exAcct, exVer, envLeft, failLeft,
                 lastPoll, tasks, rf, sent, raised, users, pace, stopped, db,
                 sessions>>

\* The engine starts with no link; bot users add and remove links while
\* it ticks, and the exchange does not answer (fetch_user_state hangs or
\* raises), so that coroutines of earlier ticks are still there.
InitLinks ==
  /\ clock = StartMs
  /\ exPos = [t \in Traders |-> [c \in Coins |-> Position(1)]]
  /\ exFills = [t \in Traders |-> <<>>]
  /\ exLedger = [t \in Traders |-> {}]
  /\ exAcct = [t \in Traders |-> Some(1)]
  /\ exVer = [t \in Traders |-> 0]
  /\ envLeft = 0
  /\ failLeft = MaxClock
  /\ cursor = [t \in Traders |-> EmptyCursor]
  /\ lastPoll = [t \in Traders |-> Null]
  /\ tasks = EmptyBag
  /\ rf = "start"
  /\ sent = EmptyBag
  /\ raised = FALSE
  /\ users = [u \in Users |-> UserRow(u)]
  /\ links = {}
  /\ pace = Null
  /\ stopped = Null
  /\ db = EngineDb
  /\ sessions = NoSessions

NextLinks ==
  \/ \E u \in Users, t \in Traders : AddTraderToUser(u, t)
  \/ \E u \in Users, t \in Traders : RemoveTraderFromUser(u, t)
  \/ StartTick
  \/ GatherRaises
  \/ Wake(EndMs)
  \/ \E task \in TaskSet : Acquire(task)
  \/ \E task \in TaskSet : GetState(task)
  \/ \E task \in TaskSet : FetchUserStateRaises(task)

SpecLinks == InitLinks /\ [][NextLinks]_vars

\* ------------------------------------------------- the pace of ticks
\* hl_poll_interval_seconds (ge=2, le=3600): the least, the default and
\* the greatest.
Intervals == {2, 10, 3600}

\* max(0.1, ...): the least sleep, in ms.
FloorMs == 100

\* sleep_for = max(0.1, self._poll_interval_seconds - elapsed), in ms.
SleepForMutNoFloor(interval, elapsed) == interval * 1000 - elapsed
SleepFor(interval, elapsed) ==
  IF interval * 1000 - elapsed > FloorMs THEN interval * 1000 - elapsed ELSE FloorMs

\* The durations of _poll_once that are followed, in ms: none, short,
\* around the interval less the floor, around the interval, twice it.
Durations(interval) ==
  {0, 1, interval * 1000 - FloorMs - 1, interval * 1000 - FloorMs,
   interval * 1000 - FloorMs + 1, interval * 1000, interval * 1000 + 1,
   2 * interval * 1000}

\* One turn of the loop of run_forever up to the sleep (lines 65-72):
\* started, _poll_once taking d ms, elapsed, sleep_for.
TickTakes(d) ==
  /\ rf = "start"
  /\ Val(pace).ticks < MaxPaced
  /\ clock' = clock + d
  /\ pace' = Some([Val(pace) EXCEPT
                     !.ticks = @ + 1,
                     !.started = Some(clock),
                     !.elapsed = Some(clock' - clock),
                     !.sleep_for = Some(SleepFor(Val(pace).interval, clock' - clock))])
  /\ rf' = "sleep"
  /\ UNCHANGED <<exPos, exFills, exLedger, exAcct, exVer, envLeft, failLeft, cursor,
                 lastPoll, tasks, sent, raised, users, links, stopped, db, sessions>>

\* await asyncio.sleep(sleep_for) ends (line 73).
SleepEnds ==
  /\ rf = "sleep"
  /\ clock' = clock + Val(Val(pace).sleep_for)
  /\ rf' = "start"
  /\ UNCHANGED <<envVars, cursor, lastPoll, tasks, sent, raised>>

InitPacing ==
  \E interval \in Intervals :
    /\ clock = StartMs
    /\ exPos = [t \in Traders |-> NoPositions]
    /\ exFills = [t \in Traders |-> <<>>]
    /\ exLedger = [t \in Traders |-> {}]
    /\ exAcct = [t \in Traders |-> Null]
    /\ exVer = [t \in Traders |-> 0]
    /\ envLeft = 0
    /\ failLeft = 0
    /\ cursor = [t \in Traders |-> EmptyCursor]
    /\ lastPoll = [t \in Traders |-> Null]
    /\ tasks = EmptyBag
    /\ rf = "start"
    /\ sent = EmptyBag
    /\ raised = FALSE
    /\ users = [u \in Users |-> UserRow(u)]
    /\ links = {}
    /\ pace = Some([interval |-> interval, ticks |-> 0, started |-> Null,
                    elapsed |-> Null, sleep_for |-> Null])
    /\ stopped = Null
    /\ db = EngineDb
    /\ sessions = NoSessions

NextPacing ==
  \/ \E d \in Durations(Val(pace).interval) : TickTakes(d)
  \/ SleepEnds

SpecPacing == InitPacing /\ [][NextPacing]_vars

\* ------------------------------------------------ one poll, any input
\* One _poll_trader of trader 1 on a committed cursor, a snapshot, a list
\* of fills and a ledger record taken from all those of a bounded size.
PositionMaps ==
  UNION {[keys -> {Position(szi) : szi \in Sizes}] : keys \in SUBSET AllCoins}

\* The row a poll at StartMs - 1 has committed with these positions, or
\* the row never polled.
CursorWith(old) ==
  IF old = Null THEN EmptyCursor
  ELSE [positions_json |-> Some(JsonDumps(Val(old))),
        last_ledger_ts_ms |-> Some(StartMs - 1),
        last_fills_ts_ms |-> Some(StartMs - 1),
        last_account_value |-> Some(1)]

SomeFills ==
  [coin : {Null} \cup {Some(c) : c \in AllCoins},
   closedPnl : {Null} \cup {Some(Num(p)) : p \in Pnls},
   time : {StartMs}]

FillLists ==
  {<<>>} \cup {<<f>> : f \in SomeFills}
         \cup {<<f, g>> : f \in SomeFills, g \in SomeFills}

Tags == {<<>>} \cup {<<a>> : a \in Pieces} \cup {<<a, b>> : a \in Pieces, b \in Pieces}

SomeUpdates ==
  [hash : {1}, time : {StartMs},
   type : {Null} \cup {Some(tag) : tag \in Tags},
   kind : {Null} \cup {Some(tag) : tag \in {<<>>, <<"Usdc", "Deposit">>, <<"Withdraw">>,
                                             <<"liquid", "ation">>, <<"internal", "Transfer">>}}]

PollStart(old, new, fills, updates) ==
  /\ clock = StartMs
  /\ exPos = [t \in Traders |-> new]
  /\ exFills = [t \in Traders |-> fills]
  /\ exLedger = [t \in Traders |-> updates]
  /\ exAcct = [t \in Traders |-> Some(1)]
  /\ exVer = [t \in Traders |-> 0]
  /\ envLeft = 0
  /\ failLeft = MaxFail
  /\ cursor = [t \in Traders |-> CursorWith(old)]
  /\ lastPoll = [t \in Traders |-> Null]
  /\ tasks = SetToBag({NewTask(1)})
  /\ rf = "gather"
  /\ sent = EmptyBag
  /\ raised = FALSE

PollInit(old, new, fills, updates) ==
  /\ PollStart(old, new, fills, updates)
  /\ InitAux

\* The poll up to the statement before the commit.
NextPoll ==
  \/ \E task \in TaskSet : Acquire(task)
  \/ \E task \in TaskSet : GetState(task)
  \/ \E task \in TaskSet : FetchUserState(task)
  \/ \E task \in TaskSet : FetchFills(task)
  \/ \E task \in TaskSet : FetchLedger(task)

InitDiff ==
  \E old \in {Null} \cup {Some(m) : m \in PositionMaps}, new \in PositionMaps :
    PollInit(old, new, <<>>, {})

SpecDiff == InitDiff /\ [][NextPoll]_vars

InitPnl ==
  \E fills \in FillLists :
    PollInit(Some([c \in AllCoins |-> Position(1)]),
             [c \in AllCoins |-> Position(-1)], fills, {})

SpecPnl == InitPnl /\ [][NextPoll]_vars

InitClassify ==
  \E u \in SomeUpdates :
    PollInit(Some(NoPositions), NoPositions, <<>>, {u})

SpecClassify == InitClassify /\ [][NextPoll]_vars

\* One poll of trader 1 up to its commit, on a cursor and a snapshot
\* whose BTC records have any szi, leverage and positionValue: a number,
\* a text that is not a number, or none; with a fill of BTC whose
\* closedPnl is any of these.
Fields(numbers) == {Null, Some(NotNumeric)} \cup {Some(Num(n)) : n \in numbers}

Records(sizes) ==
  [szi : Fields(sizes), leverage : Fields({0, 2}), positionValue : Fields({0, -3})]

InitFields ==
  \E op \in Records({1}), np \in Records({0, 2}), pnl \in Fields({0, 1}) :
    PollInit(Some([c \in {"BTC"} |-> op]), [c \in {"BTC"} |-> np],
             <<[coin |-> Some("BTC"), closedPnl |-> pnl, time |-> StartMs]>>, {})

NextFields ==
  \/ NextPoll
  \/ \E task \in TaskSet : Commit(task)

SpecFields == InitFields /\ [][NextFields]_vars

\* The event loop runs a coroutine that is ready, and the calls of this
\* poll answer.
SpecFieldsFair == SpecFields /\ WF_vars(NextFields)

\* One poll of trader 1 from the load of its cursor to the last alert,
\* on any snapshot of two coins and up to two ledger updates.
AlertTags == {<<"deposit">>, <<"Withdraw">>, <<"liquid", "ation">>, <<"internal", "Transfer">>}

Update(hash, tag) ==
  [hash |-> hash, time |-> StartMs, type |-> Some(tag), kind |-> Null]

UpdateSets ==
  {{}} \cup {{Update(1, a)} : a \in AlertTags}
       \cup {{Update(1, a), Update(2, b)} : a \in AlertTags, b \in AlertTags}

InitDispatch ==
  \E new \in PositionMaps, updates \in UpdateSets :
    PollInit(Some([c \in AllCoins |-> Position(1)]), new, <<>>, updates)

NextDispatch ==
  \/ NextPoll
  \/ \E task \in TaskSet : Commit(task)
  \/ \E task \in TaskSet : Dispatch(task)
  \/ \E task \in TaskSet : NotifyRaises(task)

SpecDispatch == InitDispatch /\ [][NextDispatch]_vars

\* One poll of trader 1 that alerts one event, with any row for user 1
\* and any set of users linked to the trader.
ChatIds == {Null, Some(""), Some("@alerts")}

UserRows(u) ==
  [telegram_id : {u}, is_admin : {FALSE}, status : Statuses,
   delivery_mode : DeliveryModes,
   delivery_chat_id : ChatIds,
   alert_positions : BOOLEAN, alert_liquidations : BOOLEAN,
   alert_deposits : BOOLEAN, alert_withdrawals : BOOLEAN]

InitNotify ==
  \E row \in UserRows(1), subscribers \in SUBSET Users,
     new \in {Position(1), Position(2)},
     updates \in {{}} \cup {{Update(1, a)} : a \in AlertTags} :
    /\ PollStart(Some([c \in Coins |-> Position(1)]), [c \in Coins |-> new], <<>>, updates)
    /\ users = [u \in Users |-> IF u = 1 THEN row ELSE UserRow(u)]
    /\ links = (subscribers \X {1}) \cup (Users \X (Traders \ {1}))
    /\ pace = Null
    /\ stopped = Null
    /\ db = EngineDb
    /\ sessions = NoSessions

SpecNotify == InitNotify /\ [][NextDispatch]_vars

\* One poll of trader 1 from the load of its cursor to the alerts, on one
\* ledger record of the shape the exchange sends for this request: the
\* type is nested under "delta".  The top-level "type" and "kind" are
\* missing, empty or, for comparison, present.
NestedTags == {<<"deposit">>, <<"Withdraw">>, <<"liquid", "ation">>,
               <<"internal", "Transfer">>, <<"Usdc", "Deposit">>}

NestedUpdates ==
  [hash : {1}, time : {StartMs},
   type : {Null, Some(<<>>), Some(<<"Withdraw">>), Some(<<"internal", "Transfer">>)},
   kind : {Null, Some(<<>>), Some(<<"liquid", "ation">>)},
   delta : {Null} \cup {Some([type |-> ty]) :
                          ty \in {Null} \cup {Some(tag) : tag \in NestedTags}}]

InitNested ==
  \E u \in NestedUpdates :
    PollInit(Some(NoPositions), NoPositions, <<>>, {u})

SpecNested == InitNested /\ [][NextDispatch]_vars

\* -------------------------------------------- the bot's sessions
\* Each handler opens its own AsyncSession.  A SELECT reads the committed
\* rows and the session's own writes; the first INSERT of a transaction
\* takes SQLite's write lock, which the session keeps until its commit
\* or rollback, and an INSERT of another session waits for it.
SessionIds == 1..2

\* The addresses a message may hold, and a.lower().
Addresses == {"0xAA", "0xaa", "0xbb"}
LowerAddress(a) == IF a = "0xAA" THEN "0xaa" ELSE a

\* addrs = sorted({a.lower() for a in found}), line 190
Addrs(found) ==
  SelectSeq(<<"0xaa", "0xbb">>, LAMBDA a : a \in {LowerAddress(x) : x \in found})

NoPending == [traders |-> {}, trader_states |-> {}, links |-> {}, users |-> {}]

\* traders_add_text of the user with this telegram_id, on a message with
\* these addresses, before its first await.
NewAddText(tg, found) ==
  [handler |-> "traders_add_text", tg |-> tg, text |-> found,
   addrs |-> Addrs(found),
   pc |-> "get_by_telegram_id", user |-> Null, trader |-> Null,
   pending |-> NoPending, added |-> 0, result |-> Null]

SetSession(s, new) == sessions' = [sessions EXCEPT ![s] = new]

\* The users rows with this telegram_id that the session sees.
UsersWith(tg) == {u \in DOMAIN users : users[u].telegram_id = tg}

\* user = await users.get_by_telegram_id(tg.id), lines 200-204: the
\* handler goes on for an approved user only.
AddTextGetUser(s) ==
  /\ sessions[s].handler = "traders_add_text"
  /\ sessions[s].pc = "get_by_telegram_id"
  /\ LET found == UsersWith(sessions[s].tg)
     IN IF found = {} \/ \E u \in found : users[u].status # "approved"
          THEN SetSession(s, [sessions[s] EXCEPT !.pc = "done"])
          ELSE SetSession(s, [sessions[s] EXCEPT
                 !.pc = "select_trader",
                 !.user = Some(CHOOSE u \in found : TRUE)])
  /\ UNCHANGED <<clock, exPos, exFills, exLedger, exAcct, exVer, envLeft, failLeft,
                 cursor, lastPoll, tasks, rf, sent, raised, users, links, pace,
                 stopped, db>>

\* The session's transaction is open and holds the write lock, or no
\* other session holds it.
CanWrite(s) == db.lock \in {Null, Some(s)}

\* The pc of the loop of lines 206-214 after the address in hand.
NextAddress(session) ==
  IF Len(session.addrs) > 1 THEN "select_trader" ELSE "done"

\* get_or_create_trader, lines 90-94: SELECT by the lower-cased address.
SelectTrader(s) ==
  /\ sessions[s].handler = "traders_add_text"
  /\ sessions[s].pc = "select_trader"
  /\ LET addr == LowerAddress(Head(sessions[s].addrs))
         rows == {r \in db.traders \cup sessions[s].pending.traders : r.address = addr}
     IN IF rows # {}
          THEN SetSession(s, [sessions[s] EXCEPT
                 !.pc = "insert_link",
                 !.trader = Some((CHOOSE r \in rows : TRUE).id)])
          ELSE SetSession(s, [sessions[s] EXCEPT !.pc = "insert_trader"])
  /\ UNCHANGED <<clock, exPos, exFills, exLedger, exAcct, exVer, envLeft, failLeft,
                 cursor, lastPoll, tasks, rf, sent, raised, users, links, pace,
                 stopped, db>>

\* "except Exception: ... await session.rollback()", lines 211-214: the
\* writes of the transaction are gone, the loop goes on.
AddTextRollback(s) ==
  [sessions[s] EXCEPT !.pc = NextAddress(sessions[s]), !.addrs = Tail(@),
     !.trader = Null, !.pending = NoPending]

\* Trader(address=addr); add; flush (lines 95-97): the INSERT waits for
\* the write lock, and raises IntegrityError on a committed row of the
\* same address (traders.address is unique), which add_trader_to_user
\* lets through to the handler.
InsertTrader(s) ==
  /\ sessions[s].handler = "traders_add_text"
  /\ sessions[s].pc = "insert_trader"
  /\ CanWrite(s)
  /\ LET addr == LowerAddress(Head(sessions[s].addrs))
         id == Cardinality(db.traders) + 1
     IN IF \E r \in db.traders : r.address = addr
          THEN /\ SetSession(s, AddTextRollback(s))
               /\ db' = [db EXCEPT !.lock = Null]
          ELSE /\ SetSession(s, [sessions[s] EXCEPT
                    !.pc = "insert_state",
                    !.trader = Some(id),
                    !.pending.traders = @ \cup {[id |-> id, address |-> addr]}])
               /\ db' = [db EXCEPT !.lock = Some(s)]
  /\ UNCHANGED <<clock, exPos, exFills, exLedger, exAcct, exVer, envLeft, failLeft,
                 cursor, lastPoll, tasks, rf, sent, raised, users, links, pace,
                 stopped>>

\* TraderState(trader_id=trader.id); add; flush (lines 99-101)
InsertTraderState(s) ==
  /\ sessions[s].handler = "traders_add_text"
  /\ sessions[s].pc = "insert_state"
  /\ SetSession(s, [sessions[s] EXCEPT
       !.pc = "insert_link",
       !.pending.trader_states = @ \cup sessions[s].trader])
  /\ UNCHANGED <<clock, exPos, exFills, exLedger, exAcct, exVer, envLeft, failLeft,
                 cursor, lastPoll, tasks, rf, sent, raised, users, links, pace,
                 stopped, db>>

\* INSERT OR IGNORE INTO user_traders; flush (lines 107-112)
InsertLink(s) ==
  /\ sessions[s].handler = "traders_add_text"
  /\ sessions[s].pc = "insert_link"
  /\ CanWrite(s)
  /\ SetSession(s, [sessions[s] EXCEPT
       !.pc = "commit",
       !.pending.links = @ \cup {<<Val(sessions[s].user), Val(sessions[s].trader)>>}])
  /\ db' = [db EXCEPT !.lock = Some(s)]
  /\ UNCHANGED <<clock, exPos, exFills, exLedger, exAcct, exVer, envLeft, failLeft,
                 cursor, lastPoll, tasks, rf, sent, raised, users, links, pace,
                 stopped>>

\* await session.commit(); added += 1 (lines 209-210)
AddTextCommit(s) ==
  /\ sessions[s].handler = "traders_add_text"
  /\ sessions[s].pc = "commit"
  /\ db' = [db EXCEPT !.traders = @ \cup sessions[s].pending.traders,
                      !.trader_states = @ \cup sessions[s].pending.trader_states,
                      !.lock = Null]
  /\ links' = links \cup sessions[s].pending.links
  /\ SetSession(s, [sessions[s] EXCEPT
       !.pc = NextAddress(sessions[s]), !.addrs = Tail(@), !.trader = Null,
       !.pending = NoPending, !.added = @ + 1])
  /\ UNCHANGED <<clock, exPos, exFills, exLedger, exAcct, exVer, envLeft, failLeft,
                 cursor, lastPoll, tasks, rf, sent, raised, users, pace, stopped>>

\* Two users, the second one approved or not, each send a message with
\* addresses while the traders table is empty or holds the row of 0xbb.
InitAddText ==
  \E f1 \in SUBSET Addresses \ {{}}, f2 \in SUBSET Addresses \ {{}},
     tg2 \in {2, 3}, known \in SUBSET {"0xbb"} :
    /\ clock = StartMs
    /\ exPos = [t \in Traders |-> [c \in Coins |-> Position(1)]]
    /\ exFills = [t \in Traders |-> <<>>]
    /\ exLedger = [t \in Traders |-> {}]
    /\ exAcct = [t \in Traders |-> Some(1)]
    /\ exVer = [t \in Traders |-> 0]
    /\ envLeft = 0
    /\ failLeft = 0
    /\ cursor = [t \in Traders |-> EmptyCursor]
    /\ lastPoll = [t \in Traders |-> Null]
    /\ tasks = EmptyBag
    /\ rf = "start"
    /\ sent = EmptyBag
    /\ raised = FALSE
    /\ users = [u \in Users |-> UserRow(u)]
    /\ links = {}
    /\ pace = Null
    /\ stopped = Null
    /\ db = [traders |-> {[id |-> 1, address |-> a] : a \in known},
             trader_states |-> {1 : a \in known},
             lock |-> Null]
    /\ sessions = [s \in SessionIds |->
                     IF s = 1 THEN NewAddText(1, f1) ELSE NewAddText(tg2, f2)]

NextAddText ==
  \/ \E s \in DOMAIN sessions : AddTextGetUser(s)
  \/ \E s \in DOMAIN sessions : SelectTrader(s)
  \/ \E s \in DOMAIN sessions : InsertTrader(s)
  \/ \E s \in DOMAIN sessions : InsertTraderState(s)
  \/ \E s \in DOMAIN sessions : InsertLink(s)
  \/ \E s \in DOMAIN sessions : AddTextCommit(s)

SpecAddText == InitAddText /\ [][NextAddText]_vars

\* settings.bot_admins: user 1, and an account that has never sent
\* /start and so has no users row.
BotAdmins == {1, 4}

\* The /start handler (user.py 55-72) of the user with this telegram_id,
\* before its first await.  The username is left out.
NewStart(tg) ==
  [handler |-> "start", tg |-> tg, pc |-> "get_by_telegram_id", result |-> Null,
   pending |-> NoPending, integrity_error |-> FALSE]

\* get_or_create, lines 25-30: the fast path returns the existing user.
GetOrCreateSelect(s) ==
  /\ sessions[s].handler = "start"
  /\ sessions[s].pc = "get_by_telegram_id"
  /\ LET found == UsersWith(sessions[s].tg)
     IN IF found # {}
          THEN SetSession(s, [sessions[s] EXCEPT
                 !.pc = "commit", !.result = Some(CHOOSE u \in found : TRUE)])
          ELSE SetSession(s, [sessions[s] EXCEPT !.pc = "flush"])
  /\ UNCHANGED <<clock, exPos, exFills, exLedger, exAcct, exVer, envLeft, failLeft,
                 cursor, lastPoll, tasks, rf, sent, raised, users, links, pace,
                 stopped, db>>

\* "except IntegrityError: await self._s.rollback()", lines 38-40: the
\* session goes on to select the row again.
AfterIntegrityErrorMutRaises(session) ==
  [session EXCEPT !.pc = "raised", !.pending = NoPending, !.integrity_error = TRUE]
AfterIntegrityError(session) ==
  [session EXCEPT !.pc = "reselect", !.pending = NoPending, !.integrity_error = TRUE]

\* User(telegram_id=..., username=...); add; flush (lines 33-37): the
\* INSERT waits for the write lock and raises IntegrityError on a
\* committed row of the same telegram_id (users.telegram_id is unique).
GetOrCreateFlush(s) ==
  /\ sessions[s].handler = "start"
  /\ sessions[s].pc = "flush"
  /\ CanWrite(s)
  /\ LET id == Cardinality(DOMAIN users) + 1
     IN IF UsersWith(sessions[s].tg) # {}
          THEN /\ SetSession(s, AfterIntegrityError(sessions[s]))
               /\ db' = [db EXCEPT !.lock = Null]
          ELSE /\ SetSession(s, [sessions[s] EXCEPT
                    !.pc = "commit", !.result = Some(id),
                    !.pending.users = {[id |-> id, row |-> NewUser(sessions[s].tg)]}])
               /\ db' = [db EXCEPT !.lock = Some(s)]
  /\ UNCHANGED <<clock, exPos, exFills, exLedger, exAcct, exVer, envLeft, failLeft,
                 cursor, lastPoll, tasks, rf, sent, raised, users, links, pace,
                 stopped>>

\* existing = await self.get_by_telegram_id(telegram_id); raise if there
\* is none (lines 41-46)
GetOrCreateReselect(s) ==
  /\ sessions[s].handler = "start"
  /\ sessions[s].pc = "reselect"
  /\ LET found == UsersWith(sessions[s].tg)
     IN IF found = {}
          THEN SetSession(s, [sessions[s] EXCEPT !.pc = "raised"])
          ELSE SetSession(s, [sessions[s] EXCEPT
                 !.pc = "commit", !.result = Some(CHOOSE u \in found : TRUE)])
  /\ UNCHANGED <<clock, exPos, exFills, exLedger, exAcct, exVer, envLeft, failLeft,
                 cursor, lastPoll, tasks, rf, sent, raised, users, links, pace,
                 stopped, db>>

\* The row of the user as /start leaves it (user.py 65-70): an admin of
\* settings.bot_admins is made admin and approved.
AutoApprove(row) ==
  IF row.telegram_id \in BotAdmins
    THEN [row EXCEPT !.is_admin = TRUE, !.status = "approved"]
    ELSE row

\* await session.commit() of /start (user.py 72): the INSERT of the new
\* row becomes visible, the UPDATE of a changed row is written.
StartCommit(s) ==
  /\ sessions[s].handler = "start"
  /\ sessions[s].pc = "commit"
  /\ CanWrite(s)
  /\ LET new == sessions[s].pending.users
         id == Val(sessions[s].result)
         rows == [u \in DOMAIN users \cup {r.id : r \in new} |->
                    IF u \in DOMAIN users THEN users[u]
                    ELSE (CHOOSE r \in new : r.id = u).row]
     IN users' = [rows EXCEPT ![id] = AutoApprove(@)]
  /\ db' = [db EXCEPT !.lock = Null]
  /\ SetSession(s, [sessions[s] EXCEPT !.pc = "done", !.pending = NoPending])
  /\ UNCHANGED <<clock, exPos, exFills, exLedger, exAcct, exVer, envLeft, failLeft,
                 cursor, lastPoll, tasks, rf, sent, raised, links, pace, stopped>>

\* Two /start handlers, of the same user or of two, on a users table
\* that holds none, one or both of the rows.
InitStart ==
  \E tg1 \in {1, 2}, tg2 \in {1, 2},
     rows \in {<<>>, <<NewUser(1)>>, <<NewUser(2)>>, <<NewUser(2), NewUser(1)>>} :
    /\ clock = StartMs
    /\ exPos = [t \in Traders |-> [c \in Coins |-> Position(1)]]
    /\ exFills = [t \in Traders |-> <<>>]
    /\ exLedger = [t \in Traders |-> {}]
    /\ exAcct = [t \in Traders |-> Some(1)]
    /\ exVer = [t \in Traders |-> 0]
    /\ envLeft = 0
    /\ failLeft = 0
    /\ cursor = [t \in Traders |-> EmptyCursor]
    /\ lastPoll = [t \in Traders |-> Null]
    /\ tasks = EmptyBag
    /\ rf = "start"
    /\ sent = EmptyBag
    /\ raised = FALSE
    /\ users = rows
    /\ links = {}
    /\ pace = Null
    /\ stopped = Null
    /\ db = EngineDb
    /\ sessions = [s \in SessionIds |-> NewStart(IF s = 1 THEN tg1 ELSE tg2)]

NextStart ==
  \/ \E s \in DOMAIN sessions : GetOrCreateSelect(s)
  \/ \E s \in DOMAIN sessions : GetOrCreateFlush(s)
  \/ \E s \in DOMAIN sessions : GetOrCreateReselect(s)
  \/ \E s \in DOMAIN sessions : StartCommit(s)

SpecStart == InitStart /\ [][NextStart]_vars

\* ------------------------------------------------ the admin handlers
\* The telegram ids a callback may come from or name: the users and the
\* account without a row.
TelegramIds == Users \cup {4}

\* _is_admin(tg_id, user_is_admin, settings)
IsAdminMutAlways(tg_id, user_is_admin) == TRUE
IsAdmin(tg_id, user_is_admin) == user_is_admin \/ tg_id \in BotAdmins

\* me = await users.get_by_telegram_id(tg.id); "me is None or not
\* _is_admin(tg.id, me.is_admin, settings)" refuses the caller.
Permitted(tg) ==
  LET me == UsersWith(tg)
  IN me # {} /\ IsAdmin(tg, users[CHOOSE u \in me : TRUE].is_admin)

\* The handler's record once it has returned.
AdminCall(handler, tg, target, arg) ==
  [handler |-> handler, tg |-> tg, target |-> target, arg |-> arg,
   pc |-> IF Permitted(tg) THEN "done" ELSE "refused", before |-> users]

\* admin_approve, admin_deny and admin_block pass this status.
StatusOf(command) == IF command = "approve" THEN "approved" ELSE "blocked"

\* UserRepository.set_status: UPDATE users SET status WHERE telegram_id
SetStatus(telegram_id, status) ==
  [u \in DOMAIN users |->
     IF users[u].telegram_id = telegram_id
       THEN [users[u] EXCEPT !.status = status]
       ELSE users[u]]

\* _admin_set_status with its commit; the message to the user is left out.
AdminSetStatus(tg, user_id, command) ==
  /\ users' = IF Permitted(tg) THEN SetStatus(user_id, StatusOf(command)) ELSE users
  /\ sessions' = <<AdminCall("_admin_set_status", tg, user_id, command)>>
  /\ UNCHANGED <<clock, exPos, exFills, exLedger, exAcct, exVer, envLeft, failLeft,
                 cursor, lastPoll, tasks, rf, sent, raised, links, pace, stopped, db>>

\* The categories a callback may name, and category.lower().
Categories == {"positions", "Positions", "liquidation", "LIQUIDATION", "deposit",
               "withdraw", "Withdraw", "deposits", ""}
LowerCategoryMutIdentity(category) == category
LowerCategory(category) ==
  CASE category = "Positions" -> "positions"
    [] category = "LIQUIDATION" -> "liquidation"
    [] category = "Withdraw" -> "withdraw"
    [] OTHER -> category

\* UserRepository.toggle_alert: UPDATE users SET field = CASE WHEN field
\* IS TRUE THEN False ELSE True END WHERE telegram_id; nothing for a
\* category that names no field.
ToggleAlert(telegram_id, category) ==
  LET c == LowerCategory(category)
  IN [u \in DOMAIN users |->
        IF users[u].telegram_id # telegram_id THEN users[u]
        ELSE CASE c = "positions" -> [users[u] EXCEPT !.alert_positions = ~@]
               [] c = "liquidation" -> [users[u] EXCEPT !.alert_liquidations = ~@]
               [] c = "deposit" -> [users[u] EXCEPT !.alert_deposits = ~@]
               [] c = "withdraw" -> [users[u] EXCEPT !.alert_withdrawals = ~@]
               [] OTHER -> users[u]]

\* admin_toggle_alert with its commit.
AdminToggleAlert(tg, target_id, category) ==
  /\ users' = IF Permitted(tg) THEN ToggleAlert(target_id, category) ELSE users
  /\ sessions' = <<AdminCall("admin_toggle_alert", tg, target_id, category)>>
  /\ UNCHANGED <<clock, exPos, exFills, exLedger, exAcct, exVer, envLeft, failLeft,
                 cursor, lastPoll, tasks, rf, sent, raised, links, pace, stopped, db>>

\* The bot with no engine running and these users rows.
AdminStart(rows) ==
  /\ clock = StartMs
  /\ exPos = [t \in Traders |-> [c \in Coins |-> Position(1)]]
  /\ exFills = [t \in Traders |-> <<>>]
  /\ exLedger = [t \in Traders |-> {}]
  /\ exAcct = [t \in Traders |-> Some(1)]
  /\ exVer = [t \in Traders |-> 0]
  /\ envLeft = 0
  /\ failLeft = 0
  /\ cursor = [t \in Traders |-> EmptyCursor]
  /\ lastPoll = [t \in Traders |-> Null]
  /\ tasks = EmptyBag
  /\ rf = "start"
  /\ sent = EmptyBag
  /\ raised = FALSE
  /\ users = rows
  /\ links = Users \X Traders
  /\ pace = Null
  /\ stopped = Null
  /\ db = EngineDb
  /\ sessions = NoSessions

\* Users of any status; user 1 is listed in bot_admins, user 2 has
\* is_admin set or not, user 3 is no admin.
InitSetStatus ==
  \E status \in [Users -> Statuses], admin \in BOOLEAN :
    AdminStart([u \in Users |->
      [NewUser(u) EXCEPT !.status = status[u], !.is_admin = (u = 2 /\ admin)]])

NextSetStatus ==
  \E tg \in TelegramIds, user_id \in TelegramIds, command \in {"approve", "deny", "block"} :
    AdminSetStatus(tg, user_id, command)

SpecSetStatus == InitSetStatus /\ [][NextSetStatus]_vars

\* User 2 with any alert flags, and is_admin set or not.
InitToggle ==
  \E flags \in [1..4 -> BOOLEAN], admin \in BOOLEAN :
    AdminStart([u \in Users |->
      IF u = 2
        THEN [UserRow(u) EXCEPT !.is_admin = admin,
                !.alert_positions = flags[1], !.alert_liquidations = flags[2],
                !.alert_deposits = flags[3], !.alert_withdrawals = flags[4]]
        ELSE UserRow(u)])

NextToggle ==
  \E tg \in TelegramIds, target_id \in {2, 3, 4}, category \in Categories :
    AdminToggleAlert(tg, target_id, category)

SpecToggle == InitToggle /\ [][NextToggle]_vars

\* The engine with every exchange call answering while user 1 adds and
\* removes its link to trader 1.  Trader 1 has been polled before (its
\* cursor is populated) and has lost its last link; its position has
\* flipped since.  Trader 2 is followed by user 2 throughout.
InitResub ==
  /\ clock = StartMs
  /\ exPos = [t \in Traders |-> [c \in Coins |-> Position(IF t = 1 THEN -1 ELSE 1)]]
  /\ exFills = [t \in Traders |-> <<>>]
  /\ exLedger = [t \in Traders |-> {}]
  /\ exAcct = [t \in Traders |-> Some(1)]
  /\ exVer = [t \in Traders |-> 0]
  /\ envLeft = MaxEnv
  /\ failLeft = MaxFail
  /\ cursor = [t \in Traders |-> CursorWith(Some([c \in Coins |-> Position(1)]))]
  /\ lastPoll = [t \in Traders |-> Null]
  /\ tasks = EmptyBag
  /\ rf = "start"
  /\ sent = EmptyBag
  /\ raised = FALSE
  /\ users = [u \in Users |-> UserRow(u)]
  /\ links = {2} \X (Traders \ {1})
  /\ pace = Null
  /\ stopped = Null
  /\ db = EngineDb
  /\ sessions = NoSessions

NextResub ==
  \/ AddTraderToUser(1, 1)
  \/ RemoveTraderFromUser(1, 1)
  \/ StartTick
  \/ GatherReturns
  \/ Wake(EndMs)
  \/ \E task \in TaskSet : Acquire(task)
  \/ \E task \in TaskSet : GetState(task)
  \/ \E task \in TaskSet : FetchUserState(task)
  \/ \E task \in TaskSet : FetchFills(task)
  \/ \E task \in TaskSet : FetchLedger(task)
  \/ \E task \in TaskSet : Commit(task)
  \/ \E task \in TaskSet : Dispatch(task)
  \/ \E task \in TaskSet : NotifyRaises(task)
  \/ \E t \in Traders, coin \in Coins, szi \in Sizes : Trade(t, coin, szi)
  \/ \E t \in Traders, tag \in LedgerTags : Ledger(t, tag)

SpecResub == InitResub /\ [][NextResub]_vars

\* One poll of trader 1 from the load of its cursor to the alert, for
\* every old and new signed size of BTC.
WideSizes == {-2, -1, 0, 1, 2}

PositionOrNone(szi) ==
  IF szi = 0 THEN NoPositions ELSE [c \in Coins |-> Position(szi)]

InitFormat ==
  \E old \in WideSizes, new \in WideSizes :
    PollInit(Some(PositionOrNone(old)), PositionOrNone(new), <<>>, {})

SpecFormat == InitFormat /\ [][NextDispatch]_vars

\* ------------------------------------------------------ properties
NotifiedFor(t) == {n \in BagToSet(sent) : n.trader = t}

Populated(c) ==
  /\ c.positions_json # Null
  /\ c.last_ledger_ts_ms # Null
  /\ c.last_fills_ts_ms # Null

\* (C1) Bootstrap suppression: a poll that loaded a fully null cursor
\* makes no call to notify_trader_subscribers whatever it computed, and
\* its commit leaves positions_json and both watermarks non-null; as
\* long as no poll of the trader has committed (a first poll that raised
\* included) the cursor stays fully null and every poll that loads it is
\* a bootstrap poll again.
BootstrapSuppression ==
  /\ \A n \in BagToSet(sent) : ~n.boot
  /\ \A x \in TaskSet : x.is_bootstrap => x.pc # "notify" /\ x.queue = <<>>
  /\ \A t \in Traders :
       IF lastPoll[t] = Null
         THEN /\ IsBootstrap(cursor[t])
              /\ NotifiedFor(t) = {}
              /\ \A x \in TaskSet :
                   x.trader = t /\ x.state # Null => x.is_bootstrap
         ELSE Populated(cursor[t])

\* A bootstrap poll has committed after computing a position event and a
\* ledger event, and nothing has been sent for its trader.
BootstrapSuppressionWitness ==
  \E t \in Traders :
    /\ lastPoll[t] # Null
    /\ Val(lastPoll[t]).boot
    /\ Val(lastPoll[t]).events >= 2
    /\ Populated(cursor[t])
    /\ NotifiedFor(t) = {}
    /\ \E x \in TaskSet : x.trader = t /\ x.pc = "done" /\ x.is_bootstrap

\* (C2) Any fetch failure aborts the poll: a poll one of whose three
\* exchange calls raised commits nothing and dispatches nothing.
FetchFailureAborts ==
  \A x \in TaskSet : x.failed # {} => ~x.committed /\ x.pc # "notify"

\* (C3) A tick is not reentrant: the listing of a tick never begins while
\* a _poll_trader task started by an earlier tick has not finished, so no
\* task of an earlier tick is ever in the event loop beside a later tick.
TickNotReentrant == \A x \in TaskSet : x.cur

\* The await points of _poll_trader after get_state has returned the row
\* and before session.commit() has returned.
BetweenLoadAndCommit ==
  {"fetch_user_state", "fetch_fills", "fetch_ledger", "commit"}

\* (C4) Per-account mutual exclusion: at most one task is between
\* loading and committing the cursor of a given trader.
MutualExclusion ==
  \A t \in Traders :
    Copies({x \in TaskSet : x.trader = t /\ x.pc \in BetweenLoadAndCommit}) =< 1

NotLowered(old, new) == old # Null => new # Null /\ Val(new) >= Val(old)

\* (C5) Watermark monotonicity: no commit lowers last_ledger_ts_ms or
\* last_fills_ts_ms of a trader.
WatermarkMonotonic ==
  [][\A t \in Traders :
       /\ NotLowered(cursor[t].last_ledger_ts_ms, cursor'[t].last_ledger_ts_ms)
       /\ NotLowered(cursor[t].last_fills_ts_ms, cursor'[t].last_fills_ts_ms)]_vars

\* (C6) Failure isolation inside a tick: when a task of the tick has
\* raised and the tick is over (_poll_once has given control back to
\* run_forever), every other task of that tick has run to completion
\* and committed its cursor.
FailureIsolation ==
  (rf # "gather" /\ \E x \in Current : x.pc = "raised")
    => \A y \in Current : y.pc = "raised" \/ (y.pc = "done" /\ y.committed)

\* (C7) Concurrency bound: at most SemWidth (8) _poll_trader
\* invocations are inside "async with self._sem" at any time, also when
\* tasks of earlier ticks still run while a later tick has started.
ConcurrencyBound == InFlight =< SemWidth

\* The semaphore is full, with stale tasks of earlier ticks among its
\* holders, and a task of the current tick is waiting for a permit.
SemaphoreFullWitness ==
  /\ InFlight = SemWidth
  /\ \E x \in TaskSet : x.pc = "sem" /\ x.cur
  /\ \E x \in TaskSet : x.pc \notin Waiting \cup Finished /\ ~x.cur


\* (C8) Commit before notify: every call to notify_trader_subscribers is
\* made by a poll whose cursor commit has succeeded; a poll that has not
\* committed (its commit raised, or has not happened yet) dispatches
\* nothing.
CommitBeforeNotify ==
  /\ \A n \in BagToSet(sent) : n.committed
  /\ \A x \in TaskSet : ~x.committed => x.pc # "notify"

\* Alerts have been sent while the commit of another poll, which had
\* events to send, raised.
CommitBeforeNotifyWitness ==
  /\ sent # EmptyBag
  /\ \E x \in TaskSet :
       x.pc = "raised" /\ x.failed = {} /\ ~x.is_bootstrap /\ ~x.committed

\* (C9) Idempotence on unchanged state: a poll of a bootstrapped trader
\* that follows a committed non-bootstrap poll, with nothing changed at
\* the exchange since before that poll loaded the cursor and no call that
\* raised, has no event to dispatch.
IdempotentOnUnchanged ==
  \A x \in TaskSet :
    ( /\ x.pc = "commit"
      /\ ~raised
      /\ x.failed = {}
      /\ ~x.is_bootstrap
      /\ lastPoll[x.trader] # Null
      /\ ~Val(lastPoll[x.trader]).boot
      /\ Val(lastPoll[x.trader]).ver = exVer[x.trader]
      /\ Val(x.state) = cursor[x.trader] )
    => x.queue = <<>>

RECURSIVE SentCopies(_)
SentCopies(S) ==
  IF S = {} THEN 0
  ELSE LET n == CHOOSE y \in S : TRUE
       IN CopiesIn(n, sent) + SentCopies(S \ {n})

\* The number of LedgerEvent notifications sent for the update u.
DispatchesOf(u) ==
  SentCopies({n \in BagToSet(sent) :
                n.category # "positions" /\ n.ev.raw = u})

\* (C10) At most one notification per ledger update: while no poll has
\* raised, every ledger update of the exchange has been dispatched as a
\* LedgerEvent at most once.
AtMostOncePerLedgerUpdate ==
  ~raised => \A u \in AllUpdates : DispatchesOf(u) =< 1

\* The swallowed failures of a poll: fills or ledger fetch that raised.
WindowFailures == {"fetch_fills_by_time", "fetch_non_funding_ledger_updates"}

\* The polls that have read the clock and hold the cursor as the last
\* committed poll of their trader left it.
Successors(t) ==
  {x \in TaskSet : /\ x.trader = t
                   /\ x.now_ms # Null
                   /\ x.state # Null
                   /\ Val(x.state) = cursor[t]}

\* (C11) Retry of a failed window: when the fills or ledger fetch of the
\* poll that committed last for a bootstrapped trader had failed, a poll
\* that loads
\* the cursor it left requests a window whose from-timestamp is not
\* later than the from-timestamp of the failed window, so that the
\* updates of the failed window are fetched again and dispatched.
FailedWindowRetried ==
  \A t \in Traders :
    ( /\ lastPoll[t] # Null
      /\ ~Val(lastPoll[t]).boot
      /\ Val(lastPoll[t]).failed \cap WindowFailures # {} )
      => \A x \in Successors(t) :
           WindowStart(Val(x.state).last_ledger_ts_ms, Val(x.now_ms))
             =< Val(lastPoll[t]).start_ms

\* asyncio.sleep returns: a sleeping run_forever is woken up.
SpecFair == Spec /\ WF_vars(Wake(EndMs))

\* The places of run_forever: the top of the loop body, the await of
\* gather inside _poll_once, and the sleep.
RfPlaces == {"start", "gather", "sleep"}

\* (C12) run_forever never terminates because of a failed tick: it is
\* always at a place of its loop, and whenever a tick is over, by a
\* listing or a task that raised as well as by a normal return, it
\* sleeps and then starts another tick (as long as the clock of the
\* model has not reached its horizon EndMs).
TicksGoOn ==
  /\ [](rf \in RfPlaces)
  /\ (rf = "sleep") ~> (rf = "start" \/ clock = EndMs)

\* A tick has been ended by a task that raised, leaving a task of that
\* tick unfinished, and run_forever has started the next tick.
TicksGoOnWitness ==
  /\ rf = "gather"
  /\ raised
  /\ \E x \in TaskSet : ~x.cur
  /\ \E x \in TaskSet : x.cur

\* The three fields of the cursor that decide is_bootstrap.
Core(c) == <<c.positions_json, c.last_ledger_ts_ms, c.last_fills_ts_ms>>

\* (C13) Atomic cursor: the committed positions_json, last_ledger_ts_ms
\* and last_fills_ts_ms of a trader are all null, or all non-null with
\* equal watermarks, and every change of them stores the three values
\* one poll has computed; so the is_bootstrap flag of a poll is the
\* negation of "the cursor it loaded is bootstrapped".
AtomicCursor ==
  /\ [](\A t \in Traders :
          /\ IsBootstrap(cursor[t]) \/ Populated(cursor[t])
          /\ cursor[t].last_ledger_ts_ms = cursor[t].last_fills_ts_ms)
  /\ [](\A x \in TaskSet :
          x.state # Null => (x.is_bootstrap <=> ~Populated(Val(x.state))))
  /\ [][\A t \in Traders :
          Core(cursor'[t]) # Core(cursor[t])
            => \E x \in TaskSet : /\ x.trader = t
                                  /\ x.pc = "commit"
                                  /\ Core(cursor'[t]) = Core(NewState(x))]_vars

\* (C14) Cursor ownership: every change of a field of a trader's cursor
\* row is the commit of a _poll_trader task of that trader; no other
\* operation of the program modifies the row.
CursorOwnership ==
  [][\A t \in Traders :
       cursor'[t] # cursor[t]
         => \E x \in TaskSet : /\ x.trader = t
                               /\ x.pc = "commit"
                               /\ tasks' = Replace(x, AfterCommit(x))]_vars

\* The polls that have made the positions diff.
Diffed == {x \in TaskSet : x.pc \in {"fetch_ledger", "commit"}}

\* The signed size of a symbol in a position map, 0 when it is missing.
SizeIn(positions, coin) ==
  IF coin \in DOMAIN positions THEN Val(positions[coin].szi)[2] ELSE 0

EventsFor(x, coin) ==
  {i \in 1..Len(x.position_events) : x.position_events[i].coin = coin}

\* (C15) Position diff: for the old and the new position map of a poll
\* there is exactly one PositionChange for each symbol of the union of
\* their keys whose signed size differs (missing counts as 0), carrying
\* the old and the new signed size, and none for any other symbol.
PositionDiff ==
  \A x \in Diffed :
    LET old == OldPositions(Val(x.state))
        new == Val(x.snapshot).positions
    IN \A coin \in AllCoins :
         IF coin \in DOMAIN old \cup DOMAIN new /\ SizeIn(old, coin) # SizeIn(new, coin)
           THEN /\ Cardinality(EventsFor(x, coin)) = 1
                /\ \A i \in EventsFor(x, coin) :
                     /\ x.position_events[i].old_szi = SizeIn(old, coin)
                     /\ x.position_events[i].new_szi = SizeIn(new, coin)
           ELSE EventsFor(x, coin) = {}

\* A poll has diffed a sign flip of BTC and an open of ETH from no
\* position: two events, BTC first.
PositionDiffWitness ==
  \E x \in Diffed :
    /\ Len(x.position_events) = 2
    /\ x.position_events[1].coin = "BTC"
    /\ x.position_events[1].old_szi = 1 /\ x.position_events[1].new_szi = -1
    /\ x.position_events[2].coin = "ETH"
    /\ x.position_events[2].old_szi = 0 /\ x.position_events[2].new_szi = 1
    /\ "ETH" \notin DOMAIN OldPositions(Val(x.state))

\* The polls that have run the ledger loop on what the exchange sent.
Classified ==
  {x \in TaskSet : x.pc = "commit"
                     /\ "fetch_non_funding_ledger_updates" \notin x.failed}

\* The type tag of a record, or its kind tag when the type is missing
\* or empty.
TagText(u) ==
  IF u.type # Null /\ Val(u.type) # <<>> THEN Val(u.type)
  ELSE IF u.kind # Null THEN Val(u.kind) ELSE <<>>

\* The tag has one of these pieces in it.
Has(tag, pieces) == \E i \in 1..Len(tag) : tag[i] \in pieces

\* The result the rule of the claim gives, the case of letters ignored.
ExpectedKind(u) ==
  IF Has(TagText(u), {"deposit", "Deposit"}) THEN "deposit"
  ELSE IF Has(TagText(u), {"withdraw", "Withdraw"}) THEN "withdraw"
  ELSE IF Has(TagText(u), {"liquid"}) THEN "liquidation"
  ELSE "ignore"

LedgerEventsFor(x, u) ==
  {i \in 1..Len(x.ledger_events) : x.ledger_events[i].raw = u}

\* (C16) Ledger classification: _classify_ledger_event gives 'deposit'
\* for a type/kind tag that contains "deposit" in any case of letters,
\* else 'withdraw' for one that contains "withdraw", else 'liquidation'
\* for one that contains "liquid", else 'ignore'; the poll creates one
\* LedgerEvent of that kind for a fetched record if and only if the
\* result is not 'ignore'.
LedgerClassification ==
  \A x \in Classified :
    \A u \in exLedger[x.trader] :
      /\ ClassifyLedgerEvent(u) = ExpectedKind(u)
      /\ IF ExpectedKind(u) = "ignore"
           THEN LedgerEventsFor(x, u) = {}
           ELSE /\ Cardinality(LedgerEventsFor(x, u)) = 1
                /\ \A i \in LedgerEventsFor(x, u) :
                     x.ledger_events[i].kind = ExpectedKind(u)

\* A poll has made a deposit event of a record whose type is empty and
\* whose kind is "UsdcDeposit".
LedgerClassificationWitness ==
  \E x \in Classified :
    /\ Len(x.ledger_events) = 1
    /\ x.ledger_events[1].kind = "deposit"
    /\ x.ledger_events[1].raw.type = Some(<<>>)
    /\ x.ledger_events[1].raw.kind = Some(<<"Usdc", "Deposit">>)

\* The fills a poll has fetched: those of the exchange (all of them lie
\* in its window), or none when the call raised.
Fetched(x) ==
  IF "fetch_fills_by_time" \in x.failed THEN <<>> ELSE exFills[x.trader]

\* The closedPnl of a fill as a number, absent counting as 0.
PnlOf(f) ==
  IF f.closedPnl # Null /\ Val(f.closedPnl)[1] = "num"
    THEN Val(f.closedPnl)[2]
    ELSE 0

RECURSIVE SumFor(_, _)
SumFor(fills, coin) ==
  IF fills = <<>> THEN 0
  ELSE (IF Head(fills).coin = Some(coin) THEN PnlOf(Head(fills)) ELSE 0)
         + SumFor(Tail(fills), coin)

NonZeroFor(fills, coin) ==
  \E i \in 1..Len(fills) : fills[i].coin = Some(coin) /\ PnlOf(fills[i]) # 0

\* (C17) Realized PnL aggregation: the realized PnL of the PositionChange
\* for a symbol is the sum of the closedPnl of the fetched fills of that
\* symbol, and null when no fetched fill of the symbol has a non-zero
\* closedPnl.
RealizedPnlAggregation ==
  \A x \in Diffed :
    \A i \in 1..Len(x.position_events) :
      LET ev == x.position_events[i]
      IN ev.realized_pnl_usd =
           IF NonZeroFor(Fetched(x), ev.coin)
             THEN Some(SumFor(Fetched(x), ev.coin))
             ELSE Null

\* A poll has summed two fills of BTC to 2 and found no fill of ETH.
RealizedPnlAggregationWitness ==
  \E x \in Diffed :
    /\ Len(Fetched(x)) = 2
    /\ Len(x.position_events) = 2
    /\ x.position_events[1].coin = "BTC"
    /\ x.position_events[1].realized_pnl_usd = Some(2)
    /\ x.position_events[2].coin = "ETH"
    /\ x.position_events[2].realized_pnl_usd = Null

\* (C18) Window selection and contiguity: a poll whose calls all succeed
\* commits the now_ms of its requests as both watermarks, and the
\* from-timestamp of its requests (the watermark it loaded, or now_ms
\* minus 300000 ms when that is null) is the to-timestamp of the
\* successful poll of the trader that committed before it: no gap and
\* no overlap between the windows of consecutive polls.
WindowContiguity ==
  [][\A x \in TaskSet :
       (x.pc = "commit" /\ x.failed = {} /\ tasks' = Replace(x, AfterCommit(x)))
         => /\ cursor'[x.trader].last_ledger_ts_ms = x.now_ms
            /\ cursor'[x.trader].last_fills_ts_ms = x.now_ms
            /\ (lastPoll[x.trader] # Null /\ Val(lastPoll[x.trader]).failed = {})
                 => WindowStart(Val(x.state).last_ledger_ts_ms, Val(x.now_ms))
                      = Val(lastPoll[x.trader]).now_ms]_vars

\* The step is the failure of the commit of poll x, which ends as y.
CommitFails(x, y) ==
  /\ x.pc = "commit"
  /\ y.pc = "raised"
  /\ y.trader = x.trader
  /\ tasks' = Replace(x, y)

\* (C19) Persistence failure: when the commit of a poll raises, the
\* committed cursor rows are what they were, the poll ends without
\* having committed and with nothing left to dispatch, and every
\* notification is sent by a poll that is in its alert loops after a
\* successful commit.
PersistenceFailure ==
  /\ [][\A x \in TaskSet : \A y \in BagToSet(tasks') :
          CommitFails(x, y)
            => /\ cursor' = cursor
               /\ sent' = sent
               /\ ~y.committed /\ y.queue = <<>>]_vars
  /\ [][sent' # sent
          => \E x \in TaskSet : /\ x.pc = "notify" /\ x.committed
                                /\ x \notin BagToSet(tasks')
                                     \/ CopiesIn(x, tasks') < CopiesIn(x, tasks)]_vars

\* The commit of a non-bootstrap poll that had computed a position
\* event has raised: the row still holds the old positions and nothing
\* has been sent for the trader.
PersistenceFailureWitness ==
  \E x \in TaskSet :
    /\ x.pc = "raised" /\ x.failed = {} /\ ~x.is_bootstrap /\ ~x.committed
    /\ Len(x.position_events) > 0
    /\ cursor[x.trader].positions_json # Some(JsonDumps(exPos[x.trader]))
    /\ NotifiedFor(x.trader) = {}

\* (C20) Dispatch failure is contained: in every call of
\* notify_trader_subscribers a send is attempted for each eligible
\* subscriber, also after the send to an earlier one has raised; the
\* call changes no cursor row and makes no poll end with an exception.
DispatchFailureContained ==
  /\ [](\A n \in BagToSet(sent) : n.attempted = Recipients(n.trader, n.category))
  /\ [][sent' # sent
          => /\ cursor' = cursor
             /\ raised' = raised
             /\ \A y \in BagToSet(tasks') :
                  y.pc = "raised" => CopiesIn(y, tasks') = CopiesIn(y, tasks)]_vars

\* The send to the first subscriber has raised and the second one has
\* got the message; the cursor committed by the poll is in place.
DispatchFailureContainedWitness ==
  \E n \in BagToSet(sent) :
    /\ n.attempted = {1, 2}
    /\ n.delivered = {2}
    /\ Populated(cursor[n.trader])
    /\ ~raised


\* The alert loops of a poll that has committed come to their end in this
\* step: the coroutine returns or an exception leaves it.
LeavesAlertLoops(x) ==
  /\ x.pc = "notify"
  /\ x.committed
  /\ CopiesIn(x, tasks') < CopiesIn(x, tasks)
  /\ \E how \in Finished :
       CopiesIn(EndTask(x, how), tasks') > CopiesIn(EndTask(x, how), tasks)

\* (C21) Every event of a committed non-bootstrap poll is dispatched: the
\* alert loops of such a poll end only with the call for the last of its
\* events, so notify_trader_subscribers has run for each computed event,
\* also when the call for an earlier event raised.
EveryEventDispatched ==
  [][\A x \in TaskSet :
       LeavesAlertLoops(x) /\ ~x.is_bootstrap => Len(x.queue) = 1]_vars


\* A PositionChange has a coin, a LedgerEvent has a kind.
IsPositionChange(ev) == "coin" \in DOMAIN ev
IsLedgerEvent(ev) == "kind" \in DOMAIN ev

\* (C25) Category tagging: every call of notify_trader_subscribers the
\* engine has made carries one of the categories positions, liquidation,
\* deposit and withdraw; it is "positions" for a PositionChange and the
\* kind of the event for a LedgerEvent.
CategoryTagging ==
  \A n \in BagToSet(sent) :
    /\ n.category \in {"positions", "liquidation", "deposit", "withdraw"}
    /\ IsPositionChange(n.ev) => n.category = "positions"
    /\ IsLedgerEvent(n.ev) => n.category = n.ev.kind

\* One poll has alerted a position change, a withdrawal and a
\* liquidation.
CategoryTaggingWitness ==
  /\ \E n \in BagToSet(sent) : IsPositionChange(n.ev)
  /\ \E n \in BagToSet(sent) : IsLedgerEvent(n.ev) /\ n.category = "withdraw"
  /\ \E n \in BagToSet(sent) : IsLedgerEvent(n.ev) /\ n.category = "liquidation"


\* "BTC" < "ETH" as Python compares str.
Before(c, d) == c = "BTC" /\ d = "ETH"

\* Two calls of one poll are in the order required: position changes by
\* symbol, a position change before a ledger event, ledger events as
\* the exchange returned their updates (oldest first, by hash).
InDispatchOrder(a, b) ==
  IF IsPositionChange(a.ev)
    THEN IsLedgerEvent(b.ev) \/ Before(a.ev.coin, b.ev.coin)
    ELSE IsLedgerEvent(b.ev) /\ a.ev.raw.hash < b.ev.raw.hash

\* (C29) Dispatch order of one poll: the calls still to make are in
\* ascending order of symbol for the position changes, all of them
\* before any ledger event, and the ledger events in the order the
\* exchange returned the updates; each call made is the first of them.
DispatchOrder ==
  /\ [](\A x \in TaskSet :
          \A i, j \in 1..Len(x.queue) :
            i < j => InDispatchOrder(x.queue[i], x.queue[j]))
  /\ [][\A n \in BagToSet(sent') :
          CopiesIn(n, sent') > CopiesIn(n, sent)
            => \E x \in TaskSet :
                 /\ x.pc = "notify" /\ x.trader = n.trader
                 /\ n.ev = Head(x.queue).ev
                 /\ CopiesIn(x, tasks') < CopiesIn(x, tasks)]_vars

\* A poll has alerted BTC, then ETH, then a liquidation, and the call
\* for a deposit the exchange returned after the liquidation is the only
\* one left.
DispatchOrderWitness ==
  \E x \in TaskSet :
    /\ x.pc = "notify"
    /\ Len(x.queue) = 1
    /\ Head(x.queue).category = "deposit"
    /\ Head(x.queue).ev.raw.hash = 2
    /\ \E n \in BagToSet(sent) : IsPositionChange(n.ev) /\ n.ev.coin = "BTC"
    /\ \E n \in BagToSet(sent) : IsPositionChange(n.ev) /\ n.ev.coin = "ETH"
    /\ \E n \in BagToSet(sent) : n.category = "liquidation" /\ n.ev.raw.hash = 1


\* The number a field holds, or none when it holds no number.
Parsed(field) ==
  IF field # Null /\ Val(field)[1] = "num" THEN Some(Val(field)[2]) ELSE Null

Magnitude(o) == IF o = Null THEN Null ELSE Some(IF Val(o) < 0 THEN 0 - Val(o) ELSE Val(o))

\* The new value when there is one, else the old one.
Preferred(new, old) == IF new # Null THEN new ELSE old

\* The record of a symbol in a position map; no field for a symbol that
\* is missing.
RecordIn(positions, coin) ==
  IF coin \in DOMAIN positions
    THEN positions[coin]
    ELSE [szi |-> Null, leverage |-> Null, positionValue |-> Null]

\* (C27) Leverage and notional preference: a PositionChange carries the
\* leverage of the new snapshot's record whenever that record has a
\* parseable leverage, the value 0 included, and the old record's
\* leverage only when the new one is absent or unparseable; the same
\* holds for the notional value, 0.0 included.
LeveragePreference ==
  \A x \in Diffed :
    \A i \in 1..Len(x.position_events) :
      LET ev == x.position_events[i]
          op == RecordIn(OldPositions(Val(x.state)), ev.coin)
          np == RecordIn(Val(x.snapshot).positions, ev.coin)
      IN /\ ev.leverage = Preferred(Parsed(np.leverage), Parsed(op.leverage))
         /\ ev.notional_usd = Preferred(Magnitude(Parsed(np.positionValue)),
                                        Magnitude(Parsed(op.positionValue)))


\* The number a field is read as: 0 when it holds no number.
NumberOr0(field) == IF Parsed(field) = Null THEN 0 ELSE Val(Parsed(field))

\* (C28) Classification never fails on a bad field: whatever szi,
\* leverage and positionValue of the old and the new record are (absent,
\* null or not numeric) and whatever the closedPnl of a fill is, no
\* exception leaves the poll, a bad size or PnL counts as 0.0, a bad
\* leverage or notional as null, and the poll commits its cursor.
BadFieldsTolerated ==
  /\ [](\A x \in TaskSet : x.pc # "raised")
  /\ [](\A x \in Diffed :
          LET op == RecordIn(OldPositions(Val(x.state)), "BTC")
              np == RecordIn(Val(x.snapshot).positions, "BTC")
              evs == EventsFor(x, "BTC")
          IN /\ Cardinality(evs) = IF NumberOr0(op.szi) # NumberOr0(np.szi) THEN 1 ELSE 0
             /\ \A i \in evs :
                  LET ev == x.position_events[i]
                  IN /\ ev.old_szi = NumberOr0(op.szi)
                     /\ ev.new_szi = NumberOr0(np.szi)
                     /\ Parsed(np.leverage) = Null /\ Parsed(op.leverage) = Null
                          => ev.leverage = Null
                     /\ Parsed(np.positionValue) = Null /\ Parsed(op.positionValue) = Null
                          => ev.notional_usd = Null
                     /\ ev.realized_pnl_usd =
                          IF NonZeroFor(Fetched(x), "BTC")
                            THEN Some(SumFor(Fetched(x), "BTC"))
                            ELSE Null)
  /\ <>(\A x \in TaskSet : x.committed)

\* A poll has committed a snapshot whose BTC record has a szi, a
\* leverage and a positionValue that are not numbers, with a fill whose
\* closedPnl is not a number: the size was read as 0 and the position of
\* size 1 reported closed.
BadFieldsToleratedWitness ==
  \E x \in TaskSet :
    /\ x.committed
    /\ exPos[x.trader]["BTC"] =
         [szi |-> Some(NotNumeric), leverage |-> Some(NotNumeric),
          positionValue |-> Some(NotNumeric)]
    /\ cursor[x.trader].positions_json = Some(JsonDumps(exPos[x.trader]))
    /\ exFills[x.trader][1].closedPnl = Some(NotNumeric)
    /\ Len(x.queue) = 1
    /\ Head(x.queue).ev.old_szi = 1 /\ Head(x.queue).ev.new_szi = 0
    /\ Head(x.queue).ev.leverage = Null


\* The alert flag of a users row for a category.
AlertFlag(row, category) ==
  \/ category = "positions" /\ row.alert_positions
  \/ category = "liquidation" /\ row.alert_liquidations
  \/ category = "deposit" /\ row.alert_deposits
  \/ category = "withdraw" /\ row.alert_withdrawals

\* Where the message of a user has to go.
Destination(row) ==
  IF row.delivery_mode = "channel" /\ row.delivery_chat_id \notin {Null, Some("")}
    THEN [telegram_id |-> Null, delivery_chat_id |-> row.delivery_chat_id]
    ELSE [telegram_id |-> Some(row.telegram_id), delivery_chat_id |-> Null]

\* (C30) Subscriber filtering: notify_trader_subscribers sends a message
\* to a user only if the user is linked to the trader, approved and has
\* the alert flag of the event's category on; the message goes to
\* delivery_chat_id when delivery_mode is channel and a chat id is set,
\* otherwise to telegram_id; a pending or blocked user never gets one.
SubscriberFiltering ==
  \A n \in BagToSet(sent) :
    \A u \in n.attempted :
      /\ <<u, n.trader>> \in links
      /\ users[u].status = "approved"
      /\ users[u].status \notin {"pending", "blocked"}
      /\ AlertFlag(users[u], n.category)
      /\ n.chat_id[u] = Destination(users[u])

\* A withdrawal alert has gone to the channel of user 1 and to user 2
\* directly, and not to user 3, who is linked but pending.
SubscriberFilteringWitness ==
  \E n \in BagToSet(sent) :
    /\ n.category = "withdraw"
    /\ n.attempted = {1, 2}
    /\ n.chat_id[1].delivery_chat_id = Some("@alerts")
    /\ n.chat_id[2].telegram_id = Some(2)
    /\ <<3, n.trader>> \in links


\* _poll_once has listed the traders and handed its tasks to gather (or
\* returned with none) in this step.
TickStarts == rf = "start" /\ rf' # "start" /\ failLeft' = failLeft

\* The coroutines of a trader that wait for the semaphore as gather has
\* just made them.
StartedFor(t) ==
  {x \in BagToSet(tasks') : x.trader = t /\ x.cur /\ x.pc = "sem"}

\* (C24) Distinct accounts per tick: a tick starts _poll_trader exactly
\* once for each trader that has at least one user_traders link when the
\* traders are listed, however many users follow it, and does not start
\* it for a trader without a link.
DistinctAccounts ==
  [][TickStarts
       => \A t \in Traders :
            IF \E u \in Users : <<u, t>> \in links
              THEN /\ Cardinality(StartedFor(t)) = 1
                   /\ \A x \in StartedFor(t) : CopiesIn(x, tasks') = 1
              ELSE StartedFor(t) = {}]_vars

\* A tick has started one coroutine for trader 1, followed by users 1
\* and 2, and none for trader 2, followed by nobody, while a coroutine
\* of an earlier tick is still there.
DistinctAccountsWitness ==
  /\ rf = "gather"
  /\ {u \in Users : <<u, 1>> \in links} = {1, 2}
  /\ \A u \in Users : <<u, 2>> \notin links
  /\ CopiesIn(NewTask(1), tasks) = 1
  /\ \E x \in TaskSet : ~x.cur
  /\ \A x \in TaskSet : x.cur => x.trader = 1


\* The greater of two numbers.
Max(a, b) == IF a > b THEN a ELSE b

\* (C26) Tick pacing: for a tick that took elapsed and an interval I of
\* 2 to 3600 s the sleep before the next tick is max(0.1 s, I - elapsed):
\* never negative, never below 100 ms, never above I, and 100 ms
\* whenever the tick took at least I - 0.1 s.
TickPacing ==
  pace # Null /\ Val(pace).sleep_for # Null
    => LET I == Val(pace).interval * 1000
           elapsed == Val(Val(pace).elapsed)
           sleep_for == Val(Val(pace).sleep_for)
       IN /\ Val(pace).interval >= 2 /\ Val(pace).interval =< 3600
          /\ sleep_for = Max(100, I - elapsed)
          /\ sleep_for >= 0
          /\ sleep_for >= 100
          /\ sleep_for =< I
          /\ elapsed >= I - 100 => sleep_for = 100

\* A tick of 2 s has taken 2001 ms and run_forever sleeps 100 ms; the
\* tick before it took no time and was followed by a sleep of 2 s.
TickPacingWitness ==
  /\ pace # Null
  /\ Val(pace).interval = 2
  /\ Val(pace).ticks = 2
  /\ Val(pace).started = Some(StartMs + 2000)
  /\ Val(pace).elapsed = Some(2001)
  /\ Val(pace).sleep_for = Some(100)


\* The calls made since the process stopped.
SentSinceStop == {n \in BagToSet(sent) : CopiesIn(n, sent) > CopiesIn(n, Val(stopped).sent)}

\* (C22) Crash semantics: when the process stops after a poll has
\* committed its cursor and before its dispatch, no later poll
\* dispatches an event of that poll; a stop changes no cursor row, so a
\* poll stopped before its commit leaves the old cursor for the next
\* poll to diff against.
CrashSemantics ==
  /\ [](stopped # Null
         => \A x \in BagToSet(Val(stopped).tasks) :
              x.committed /\ x.pc = "notify"
                => \A i \in 1..Len(x.queue) :
                     \A n \in SentSinceStop :
                       ~(n.trader = x.trader /\ n.ev = x.queue[i].ev))
  /\ [][stopped = Null /\ stopped' # Null => cursor' = cursor]_vars

\* (C23) Clean cancellation: cancelling run_forever where it waits
\* changes no cursor row (each row is as before the in-flight poll or
\* as that poll committed it), and once run_forever has finished no
\* _poll_trader coroutine is still running.
CleanCancellation ==
  /\ [][rf # "cancelled" /\ rf' = "cancelled" => cursor' = cursor]_vars
  /\ [](rf = "cancelled" => \A x \in TaskSet : x.pc \in Finished)


\* The sub-kinds of a position change that apply to a pair of sizes.
SubKinds(old, new) ==
  {k \in {"opened", "closed", "flipped", "adjusted"} :
     \/ k = "opened" /\ old = 0 /\ new # 0
     \/ k = "closed" /\ old # 0 /\ new = 0
     \/ k = "flipped" /\ ((old < 0 /\ new > 0) \/ (old > 0 /\ new < 0))
     \/ k = "adjusted" /\ ((old < 0 /\ new < 0) \/ (old > 0 /\ new > 0))}

\* (C31) Formatter sub-classification is a partition: for every
\* PositionChange (old size different from new size) exactly one of
\* opened, closed, flipped and adjusted applies, and the message
\* format_position_change returns is the one of that sub-kind.
SubClassification ==
  \A n \in BagToSet(sent) :
    n.category = "positions"
      => /\ n.ev.old_szi # n.ev.new_szi
         /\ Cardinality(SubKinds(n.ev.old_szi, n.ev.new_szi)) = 1
         /\ n.text.message \in SubKinds(n.ev.old_szi, n.ev.new_szi)

\* A flip from short to long has been alerted as flipped, Short to
\* Long.
SubClassificationWitness ==
  \E n \in BagToSet(sent) :
    /\ n.ev.old_szi = -1 /\ n.ev.new_szi = 2
    /\ n.text = [message |-> "flipped", old_side |-> Some("Short"),
                 side |-> Some("Long")]


\* The trader has no user_traders link.
Unlinked(t) == \A u \in Users : <<u, t>> \notin links

\* No coroutine of the trader is under way.
Idle(t) == \A x \in TaskSet : x.trader = t => x.pc \in Finished

\* The calls a poll has still to make are the last ones of the calls for
\* all its events.
IsSuffix(q, all) ==
  /\ Len(q) =< Len(all)
  /\ \A i \in 1..Len(q) : q[i] = all[Len(all) - Len(q) + i]

NoTopLevelTag(u) ==
  /\ u.type = Null \/ Val(u.type) = <<>>
  /\ u.kind = Null \/ Val(u.kind) = <<>>

\* The record carries a type under "delta" only.
NestedOnly(u) == NoTopLevelTag(u) /\ DeltaType(u) # Null

\* The polls that are past the ledger loop.
PastLedgerLoop ==
  {x \in TaskSet : x.pc \in {"commit", "notify", "done", "raised"}
                     /\ "fetch_non_funding_ledger_updates" \notin x.failed}

\* (C33) Tag location: _classify_ledger_event reads the tag from the
\* record's top-level 'type' only, or from 'kind' when 'type' is missing
\* or empty, whatever is nested under 'delta'; a record whose type is
\* only nested under 'delta' is classified 'ignore', gives no LedgerEvent
\* and no alert.
TagLocation ==
  /\ \A x \in PastLedgerLoop :
       \A u \in exLedger[x.trader] :
         /\ ClassifyLedgerEvent(u) = ExpectedKind(u)
         /\ NestedOnly(u)
              => /\ ClassifyLedgerEvent(u) = "ignore"
                 /\ x.ledger_events = <<>>
  /\ \A n \in BagToSet(sent) : ~NestedOnly(n.ev.raw)

\* A poll has committed on a record whose only type is the "deposit"
\* nested under "delta", and has made no LedgerEvent.
TagLocationWitness ==
  \E x \in TaskSet :
    /\ x.pc = "done"
    /\ x.ledger_events = <<>>
    /\ \E u \in exLedger[x.trader] :
         /\ u.type = Null /\ u.kind = Null
         /\ DeltaType(u) = Some(<<"deposit">>)


\* Both handlers have returned.
AddTextDone == \A s \in DOMAIN sessions : sessions[s].pc = "done"

\* The Trader rows of an address, and the users linked to one of them.
TraderRowsOf(addr) == {r \in db.traders : r.address = addr}
LinkedTo(addr) == {u \in Users : \E r \in TraderRowsOf(addr) : <<u, r.id>> \in links}

\* Two different approved users have each sent the address, which no
\* Trader row had before.
BothAdded(addr) ==
  /\ \A s \in DOMAIN sessions :
       /\ sessions[s].user # Null
       /\ users[Val(sessions[s].user)].status = "approved"
       /\ addr \in {LowerAddress(a) : a \in sessions[s].text}
  /\ \A s, r \in DOMAIN sessions : s # r => sessions[s].user # sessions[r].user

\* (C34) Concurrent subscription to a new address: once two
\* traders_add_text handlers of two different approved users that both
\* add the same previously unknown address have returned, there is
\* exactly one Trader row for the lower-cased address, exactly one
\* TraderState row for it, and a user_traders link for each of the two
\* users.
ConcurrentSubscription ==
  AddTextDone /\ BothAdded("0xaa")
    => /\ Cardinality(TraderRowsOf("0xaa")) = 1
       /\ \A r \in TraderRowsOf("0xaa") : r.id \in db.trader_states
       /\ LinkedTo("0xaa") = {Val(sessions[s].user) : s \in DOMAIN sessions}


\* The sessions whose get_or_create has returned.
Returned == {s \in DOMAIN sessions : sessions[s].pc \in {"commit", "done"}}

\* The telegram_id of the user a session's get_or_create returned: of
\* the row it inserted, or of the committed row.
ReturnedTelegramId(s) ==
  LET id == Val(sessions[s].result)
      new == {r \in sessions[s].pending.users : r.id = id}
  IN IF new # {} THEN (CHOOSE r \in new : TRUE).row.telegram_id
     ELSE users[id].telegram_id

\* (C35) UserRepository.get_or_create is race-safe: in any interleaving
\* of two get_or_create calls of different sessions there is at most
\* one users row for a telegram_id, no call raises, and each call
\* returns the user with its telegram_id; the call that loses the race
\* of the INSERT rolls back and returns the existing row.
RaceSafe ==
  /\ \A u, v \in DOMAIN users : users[u].telegram_id = users[v].telegram_id => u = v
  /\ \A s \in DOMAIN sessions : sessions[s].pc # "raised"
  /\ \A s \in Returned :
       /\ sessions[s].result # Null
       /\ ReturnedTelegramId(s) = sessions[s].tg
       /\ sessions[s].integrity_error
            => Val(sessions[s].result) \in DOMAIN users /\ sessions[s].pending = NoPending

\* Two calls for the same new telegram_id have both missed the row; one
\* has inserted it, the other has lost the race, and both have returned
\* the same one row.
RaceSafeWitness ==
  \E s, r \in DOMAIN sessions :
    /\ s # r
    /\ sessions[s].pc = "done" /\ sessions[r].pc = "done"
    /\ sessions[s].tg = sessions[r].tg
    /\ sessions[r].integrity_error /\ ~sessions[s].integrity_error
    /\ sessions[s].result = sessions[r].result
    /\ Cardinality(UsersWith(sessions[s].tg)) = 1


\* The caller has a users row, and the row has is_admin set or the
\* caller is listed in settings.bot_admins.
CallerIsAdmin(tg) ==
  \E u \in DOMAIN users :
    /\ users[u].telegram_id = tg
    /\ users[u].is_admin \/ tg \in {1, 4}

\* The status a command stands for.
CommandStatus(command) ==
  CASE command = "approve" -> "approved"
    [] command = "deny" -> "blocked"
    [] command = "block" -> "blocked"

\* The handler call made by this step.
Call == sessions'[1]

\* (C36) Admin-only status change: _admin_set_status sets the target
\* user's status (approve to approved, deny or block to blocked) and
\* nothing else when the caller has a users row and has is_admin set or
\* is listed in settings.bot_admins; for any other caller no users row
\* changes.
AdminOnlyStatus ==
  [][Call.handler = "_admin_set_status"
       => /\ DOMAIN users' = DOMAIN users
          /\ \A u \in DOMAIN users :
               IF CallerIsAdmin(Call.tg) /\ users[u].telegram_id = Call.target
                 THEN users'[u] = [users[u] EXCEPT !.status = CommandStatus(Call.arg)]
                 ELSE users'[u] = users[u]]_vars

\* User 2, whose row has is_admin set and who is not listed, has
\* approved the pending user 3; user 3, no admin, has then tried to
\* block user 2 and was refused.
AdminOnlyStatusWitness ==
  /\ sessions # NoSessions
  /\ sessions[1].handler = "_admin_set_status"
  /\ sessions[1].tg = 3 /\ sessions[1].target = 2 /\ sessions[1].arg = "block"
  /\ sessions[1].pc = "refused"
  /\ sessions[1].before = users
  /\ users[2].is_admin /\ users[2].status = "approved"
  /\ users[3].status = "approved" /\ ~users[3].is_admin

\* The alert flag a category names, letters of any case; none for
\* another text.
AlertFlagNames == {"alert_positions", "alert_liquidations", "alert_deposits",
                   "alert_withdrawals"}
FlagNamed(category) ==
  CASE category \in {"positions", "Positions"} -> {"alert_positions"}
    [] category \in {"liquidation", "LIQUIDATION"} -> {"alert_liquidations"}
    [] category \in {"deposit"} -> {"alert_deposits"}
    [] category \in {"withdraw", "Withdraw"} -> {"alert_withdrawals"}
    [] OTHER -> {}

\* The two rows differ in these alert flags and in nothing else.
DiffersIn(old, new, flags) ==
  /\ \A f \in AlertFlagNames : new[f] = IF f \in flags THEN ~old[f] ELSE old[f]
  /\ \A f \in DOMAIN old \ AlertFlagNames : new[f] = old[f]
  /\ DOMAIN new = DOMAIN old

\* (C37) toggle_alert is an involution with a narrow frame: for category
\* positions, liquidation, deposit or withdraw, in letters of any case,
\* a permitted admin_toggle_alert negates the matching alert flag of the
\* target user and changes no other flag, field or user; for any other
\* category it changes nothing; a second permitted call with the same
\* target and category restores the rows as they were before the first.
ToggleInvolution ==
  /\ [][Call.handler = "admin_toggle_alert" /\ Call.pc = "done"
          => \A u \in DOMAIN users :
               DiffersIn(users[u], users'[u],
                         IF users[u].telegram_id = Call.target
                           THEN FlagNamed(Call.arg) ELSE {})]_vars
  /\ [][(/\ sessions # NoSessions
         /\ sessions[1].pc = "done" /\ Call.pc = "done"
         /\ sessions[1].target = Call.target
         /\ sessions[1].arg = Call.arg)
          => users' = sessions[1].before]_vars

\* The liquidation alerts of user 2 have been switched off by
\* "LIQUIDATION" and the other flags and users are as before.
ToggleInvolutionWitness ==
  /\ sessions # NoSessions
  /\ sessions[1].handler = "admin_toggle_alert"
  /\ sessions[1].pc = "done"
  /\ sessions[1].target = 2 /\ sessions[1].arg = "LIQUIDATION"
  /\ sessions[1].before[2].alert_liquidations
  /\ ~users[2].alert_liquidations
  /\ users = [sessions[1].before EXCEPT ![2].alert_liquidations = FALSE]

====
